---- MODULE Spec2Model ----
(***************************************************************************)
(* Session lifecycle and log pipeline of ai-live-log-bridge.               *)
(*                                                                         *)
(*   src/src/session.ts   session ids, master index, active registry       *)
(*   src/src/storage.ts   storage directory, reading the recent logs       *)
(*   src/src/wrapper.ts   runCommandWrapper (lines 1-115)                  *)
(*   src/src/server.ts    the tools view_logs, get_crash_context and       *)
(*                        auto_fix_errors                                  *)
(*                                                                         *)
(* Several wrapper processes share one storage directory.  Every file      *)
(* system call is one atomic step; a function of session.ts that reads a   *)
(* file and writes it back is therefore two steps, and the steps of        *)
(* different processes interleave.                                         *)
(***************************************************************************)
EXTENDS Integers, Sequences, FiniteSets, TLC

----------------------------------------------------------------------------
(* Bounds of the model *)

NumProcs == 2
\* seconds of wall clock time are 0..MaxClock
MaxClock == 1
\* randomBytes(2) is drawn from MaxRandom + 1 of the 65536 values
MaxRandom == 1
\* the count argument of getRecentSessionIds is 0..MaxCount
MaxCount == 3
\* the totalLines argument of readRecentLogs is 0..MaxTotalLines
MaxTotalLines == 7
\* the maxFiles argument of readRecentLogs is 0..MaxFiles
MaxFiles == 2
\* calls of session.ts functions made by the API clients, over all processes
MaxCalls == 3
\* data events delivered by one child
MaxChunks == 2
\* the texts given to redactSecrets have at most MaxText characters
MaxText == 4

Procs == 1..NumProcs
\* the values of randomBytes(2) the model draws: 0x0000, 0x000a, 0x0014, ...
RandomValues == {10 * k : k \in 0..MaxRandom}
\* process.cwd() of each process
ProjectDir(p) == IF p % 2 = 1 THEN "/a" ELSE "/b"
Cmds == {"ls"}

----------------------------------------------------------------------------
(* Values *)

\* the value of sessionId before generateSessionId has run
NoId == <<>>

\* a JSON object without keys
EmptyMap == [x \in {} |-> 0]

Range(s) == {s[i] : i \in 1..Len(s)}

\* no call of a session.ts function in progress
NoOp == [name |-> "none", step |-> "none", id |-> NoId, dir |-> "", cmd |-> "",
         del |-> FALSE, snapIdx |-> <<>>, snapMap |-> EmptyMap]

\* no result yet
NoRet == [name |-> "none", arg |-> <<>>, value |-> <<>>, threw |-> FALSE]

VARIABLES
  clock,          \* wall clock, in seconds
  dirExists,      \* MCP_DIR exists
  masterIndex,    \* master-index.log: [exists, content], content a sequence of entries
  activeSessions, \* active-sessions.json: [exists, valid, map], valid: the content is
                  \* JSON, map: id -> [projectDir, startTime]
  logFiles,       \* session-<id>.log files: id -> sequence of cells, for the paths that exist
  pc,             \* position of each process
  sessionId,      \* the id each process generated
  op,             \* the session.ts call each process is in, with the content it has read
  calls,          \* number of API calls made so far
  regHist,        \* history: the registerSession writes, in order: [by, entry, snap]
  actHist,        \* history: the writes of active-sessions.json, in order: [by, kind, id, snap]
  completedCalls, \* history: ids markSessionCompleted has been called with
  logStream,      \* the fs.WriteStream of each wrapper: [state, ended, pos]
  hasError,       \* wrapper.ts:45
  streamClosed,   \* wrapper.ts:46
  writes,         \* history: the logStream.write calls of each wrapper, in order
  child,          \* the child process of each wrapper: [state, errorEmitted, chunks]
  recv,           \* history: the data events of each wrapper, in order: [stream, data]
  termOut,        \* the bytes each wrapper wrote to process.stdout
  termErr,        \* the bytes each wrapper wrote to process.stderr
  warnings,       \* number of 'Log write error' warnings each wrapper printed
  endCalls,       \* number of logStream.end calls of each wrapper
  pendingCb,      \* callbacks given to logStream.end that have not run yet
  settles,        \* number of times each wrapper called resolve, reject or process.exit
  outcome,        \* how each invocation ended: [kind, code]
  logMtime,       \* the modification time of each session log file, in seconds
  ret             \* what the last call of a function with a result gave each process

fsVars == <<dirExists, masterIndex, activeSessions, logFiles, logMtime>>
histVars == <<regHist, actHist, completedCalls>>
wrapVars == <<logStream, hasError, streamClosed, writes, child, recv, termOut, termErr,
              warnings, endCalls, pendingCb, settles, outcome>>

vars == <<clock, dirExists, masterIndex, activeSessions, logFiles, pc, sessionId, op,
          calls, regHist, actHist, completedCalls, logStream, hasError, streamClosed,
          writes, child, recv, termOut, termErr, warnings, endCalls, pendingCb, settles,
          outcome, logMtime, ret>>

----------------------------------------------------------------------------
(* session.ts *)

\* generateSessionId: `${timestamp}-${random}`; the timestamp has a fixed width of
\* 14 digits, so the string determines the pair and the pair the string
generateSessionId(now, random) == <<now, random>>

\* the line registerSession builds: [timestamp] [sessionId] [cwd] command
RegisterEntry(now, id, cmd, cwd) == [time |-> now, id |-> id, cwd |-> cwd, cmd |-> cmd]

\* a registerSession that writes its entry alone
RegisterContentOverwrite(snap, entry) == <<entry>>

\* a registerSession that appends to the file as it is at the time of the write
RegisterContentAppend(snap, entry) == Append(masterIndex.content, entry)

\* what registerSession writes back: the content it read, then the entry
RegisterContent(snap, entry) == Append(snap, entry)

\* active[sessionId] = { projectDir, startTime }
ActiveSet(map, id, dir, now) ==
  [x \in DOMAIN map \cup {id} |->
     IF x = id THEN [projectDir |-> dir, startTime |-> now] ELSE map[x]]

\* a markSessionCompleted that writes the registry back as it read it
ActiveKeep(map, id) == map

\* delete active[sessionId]
ActiveDelete(map, id) == [x \in DOMAIN map \ {id} |-> map[x]]

Return(p) == op' = [op EXCEPT ![p] = NoOp]

\* JSON.parse(content) of active-sessions.json throws a SyntaxError
ParseFails == activeSessions.exists /\ ~activeSessions.valid

\* registerSession, lines 52-53: existsSync, readFileSync
RegisterRead(p) ==
  /\ op[p].name = "registerSession" /\ op[p].step = "read"
  /\ op' = [op EXCEPT ![p].step = "write",
                      ![p].snapIdx = IF masterIndex.exists THEN masterIndex.content ELSE <<>>]
  /\ UNCHANGED <<wrapVars, clock, dirExists, masterIndex, activeSessions, logFiles, logMtime, pc, sessionId,
                 calls, regHist, actHist, completedCalls, ret>>

\* registerSession, lines 54 and 56: writeFileSync
RegisterWrite(p) ==
  /\ op[p].name = "registerSession" /\ op[p].step = "write"
  /\ LET entry == RegisterEntry(clock, op[p].id, op[p].cmd, op[p].dir)
     IN /\ masterIndex' = [exists |-> TRUE, content |-> RegisterContent(op[p].snapIdx, entry)]
        /\ regHist' = Append(regHist, [by |-> p, entry |-> entry, snap |-> op[p].snapIdx])
  /\ Return(p)
  /\ UNCHANGED <<wrapVars, clock, dirExists, activeSessions, logFiles, logMtime, pc, sessionId, calls,
                 actHist, completedCalls, ret>>

\* markSessionActive, lines 113-118: existsSync, readFileSync, JSON.parse
MarkActiveRead(p) ==
  /\ op[p].name = "markSessionActive" /\ op[p].step = "read"
  /\ ~ParseFails
  /\ op' = [op EXCEPT ![p].step = "write",
                      ![p].snapMap = IF activeSessions.exists THEN activeSessions.map
                                     ELSE EmptyMap]
  /\ UNCHANGED <<wrapVars, clock, dirExists, masterIndex, activeSessions, logFiles, logMtime, pc, sessionId,
                 calls, regHist, actHist, completedCalls, ret>>

\* markSessionActive, lines 120-125: set the key, writeFileSync
MarkActiveWrite(p) ==
  /\ op[p].name = "markSessionActive" /\ op[p].step = "write"
  /\ activeSessions' = [exists |-> TRUE, valid |-> TRUE,
                        map |-> ActiveSet(op[p].snapMap, op[p].id, op[p].dir, clock)]
  /\ actHist' = Append(actHist, [by |-> p, kind |-> "active", id |-> op[p].id,
                                 snap |-> op[p].snapMap])
  /\ Return(p)
  /\ UNCHANGED <<wrapVars, clock, dirExists, masterIndex, logFiles, logMtime, pc, sessionId, calls,
                 regHist, completedCalls, ret>>

\* a markSessionCompleted that reads the registry and goes on to the log file
\* without writing the registry back
MarkCompletedReadNoWrite(p) ==
  /\ op[p].name = "markSessionCompleted" /\ op[p].step = "read"
  /\ ~ParseFails
  /\ op' = [op EXCEPT ![p].step = "unlink",
                      ![p].snapMap = IF activeSessions.exists THEN activeSessions.map
                                     ELSE EmptyMap]
  /\ UNCHANGED <<wrapVars, clock, dirExists, masterIndex, activeSessions, logFiles, logMtime, pc, sessionId,
                 calls, regHist, actHist, completedCalls, ret>>

\* a markSessionCompleted that writes the registry also when the file does not exist
MarkCompletedReadAlways(p) ==
  /\ op[p].name = "markSessionCompleted" /\ op[p].step = "read"
  /\ ~ParseFails
  /\ op' = [op EXCEPT ![p].step = "write",
                      ![p].snapMap = IF activeSessions.exists THEN activeSessions.map
                                     ELSE EmptyMap]
  /\ UNCHANGED <<wrapVars, clock, dirExists, masterIndex, activeSessions, logFiles, logMtime, pc, sessionId,
                 calls, regHist, actHist, completedCalls, ret>>

\* markSessionCompleted, lines 134-138: existsSync, readFileSync, JSON.parse;
\* without the file the function goes on to the log file
MarkCompletedRead(p) ==
  /\ op[p].name = "markSessionCompleted" /\ op[p].step = "read"
  /\ ~ParseFails
  /\ op' = [op EXCEPT ![p].step = IF activeSessions.exists THEN "write" ELSE "unlink",
                      ![p].snapMap = IF activeSessions.exists THEN activeSessions.map
                                     ELSE EmptyMap]
  /\ UNCHANGED <<wrapVars, clock, dirExists, masterIndex, activeSessions, logFiles, logMtime, pc, sessionId,
                 calls, regHist, actHist, completedCalls, ret>>

\* a markSessionCompleted that writes an empty registry
MarkCompletedWriteEmpty(p) ==
  /\ op[p].name = "markSessionCompleted" /\ op[p].step = "write"
  /\ activeSessions' = [exists |-> TRUE, valid |-> TRUE, map |-> EmptyMap]
  /\ actHist' = Append(actHist, [by |-> p, kind |-> "completed", id |-> op[p].id,
                                 snap |-> op[p].snapMap])
  /\ op' = [op EXCEPT ![p].step = "unlink"]
  /\ UNCHANGED <<wrapVars, clock, dirExists, masterIndex, logFiles, logMtime, pc, sessionId, calls,
                 regHist, completedCalls, ret>>

\* markSessionCompleted, lines 139-140: delete the key, writeFileSync
MarkCompletedWrite(p) ==
  /\ op[p].name = "markSessionCompleted" /\ op[p].step = "write"
  /\ activeSessions' = [exists |-> TRUE, valid |-> TRUE,
                        map |-> ActiveDelete(op[p].snapMap, op[p].id)]
  /\ actHist' = Append(actHist, [by |-> p, kind |-> "completed", id |-> op[p].id,
                                 snap |-> op[p].snapMap])
  /\ op' = [op EXCEPT ![p].step = "unlink"]
  /\ UNCHANGED <<wrapVars, clock, dirExists, masterIndex, logFiles, logMtime, pc, sessionId, calls,
                 regHist, completedCalls, ret>>

\* a markSessionCompleted that deletes the log file before it has read the registry
MarkCompletedUnlinkFirst(p) ==
  /\ op[p].name = "markSessionCompleted" /\ op[p].step = "read"
  /\ op[p].del /\ op[p].id \in DOMAIN logFiles
  /\ logFiles' = [x \in DOMAIN logFiles \ {op[p].id} |-> logFiles[x]]
  /\ logMtime' = [x \in DOMAIN logFiles' |-> logMtime[x]]
  /\ UNCHANGED <<wrapVars, clock, dirExists, masterIndex, activeSessions, pc, sessionId, op,
                 calls, regHist, actHist, completedCalls, ret>>

\* markSessionCompleted, lines 144-149: existsSync, unlinkSync when deleteLog is set
MarkCompletedUnlink(p) ==
  /\ op[p].name = "markSessionCompleted" /\ op[p].step = "unlink"
  /\ logFiles' = IF op[p].del /\ op[p].id \in DOMAIN logFiles
                 THEN [x \in DOMAIN logFiles \ {op[p].id} |-> logFiles[x]]
                 ELSE logFiles
  /\ logMtime' = [x \in DOMAIN logFiles' |-> logMtime[x]]
  /\ Return(p)
  /\ UNCHANGED <<wrapVars, clock, dirExists, masterIndex, activeSessions, pc, sessionId, calls,
                 regHist, actHist, completedCalls, ret>>

\* the order of two session ids as strings: the timestamp first, then the suffix
IdLess(a, b) == a[1] < b[1] \/ (a[1] = b[1] /\ a[2] < b[2])

RECURSIVE SortedIds(_)
\* the ids of a set as an array; the order Object.keys gives is not modelled, the
\* array lists the ids in increasing order
SortedIds(S) ==
  IF S = {} THEN <<>>
  ELSE LET m == CHOOSE x \in S : \A y \in S \ {x} : IdLess(x, y)
       IN <<m>> \o SortedIds(S \ {m})

\* getActiveSessions(projectDir?), lines 157-172, when JSON.parse succeeds; arg is
\* <<>> for a call without argument and <<d>> for a call with the argument d; the
\* filter is applied when projectDir is truthy, that is, given and not ""
getActiveSessions(arg) ==
  IF ~activeSessions.exists THEN <<>>
  ELSE LET active == activeSessions.map
       IN IF arg # <<>> /\ arg[1] # ""
          THEN SortedIds({id \in DOMAIN active : active[id].projectDir = arg[1]})
          ELSE SortedIds(DOMAIN active)

\* markSessionActive and markSessionCompleted, lines 117 and 138: JSON.parse throws;
\* neither function has a try, the exception reaches the caller, who is taken to
\* catch it and to go on
ParseThrow(p) ==
  /\ op[p].name \in {"markSessionActive", "markSessionCompleted"} /\ op[p].step = "read"
  /\ ParseFails
  /\ ret' = [ret EXCEPT ![p] = [name |-> op[p].name, arg |-> <<>>, value |-> <<>>,
                                 threw |-> TRUE]]
  /\ Return(p)
  /\ UNCHANGED <<wrapVars, clock, fsVars, pc, sessionId, calls, histVars>>

----------------------------------------------------------------------------
(* API clients: processes that call the functions session.ts exports, in any order *)

\* const sessionId = generateSessionId()
ApiGenerate(p) ==
  /\ pc[p] = "api" /\ op[p].name = "none" /\ sessionId[p] = NoId
  /\ \E r \in RandomValues : sessionId' = [sessionId EXCEPT ![p] = generateSessionId(clock, r)]
  /\ UNCHANGED <<wrapVars, clock, dirExists, masterIndex, activeSessions, logFiles, logMtime, pc, op, calls,
                 regHist, actHist, completedCalls, ret>>

\* registerSession(sessionId, command, args, cwd)
ApiRegister(p) ==
  /\ pc[p] = "api" /\ op[p].name = "none" /\ sessionId[p] # NoId /\ calls < MaxCalls
  /\ \E c \in Cmds :
       op' = [op EXCEPT ![p] = [NoOp EXCEPT !.name = "registerSession", !.step = "read",
                                            !.id = sessionId[p], !.dir = ProjectDir(p),
                                            !.cmd = c]]
  /\ calls' = calls + 1
  /\ UNCHANGED <<wrapVars, clock, dirExists, masterIndex, activeSessions, logFiles, logMtime, pc, sessionId,
                 regHist, actHist, completedCalls, ret>>

\* markSessionActive(sessionId, projectDir)
ApiMarkActive(p) ==
  /\ pc[p] = "api" /\ op[p].name = "none" /\ sessionId[p] # NoId /\ calls < MaxCalls
  /\ op' = [op EXCEPT ![p] = [NoOp EXCEPT !.name = "markSessionActive", !.step = "read",
                                          !.id = sessionId[p], !.dir = ProjectDir(p)]]
  /\ calls' = calls + 1
  /\ UNCHANGED <<wrapVars, clock, dirExists, masterIndex, activeSessions, logFiles, logMtime, pc, sessionId,
                 regHist, actHist, completedCalls, ret>>

\* markSessionCompleted(sessionId, deleteLog)
ApiMarkCompleted(p) ==
  /\ pc[p] = "api" /\ op[p].name = "none" /\ sessionId[p] # NoId /\ calls < MaxCalls
  /\ \E del \in BOOLEAN :
       op' = [op EXCEPT ![p] = [NoOp EXCEPT !.name = "markSessionCompleted", !.step = "read",
                                            !.id = sessionId[p], !.del = del]]
  /\ calls' = calls + 1
  /\ completedCalls' = completedCalls \cup {sessionId[p]}
  /\ UNCHANGED <<wrapVars, clock, dirExists, masterIndex, activeSessions, logFiles, logMtime, pc, sessionId,
                 regHist, actHist, ret>>

\* a second passes
Tick ==
  /\ clock < MaxClock
  /\ clock' = clock + 1
  /\ UNCHANGED <<wrapVars, dirExists, masterIndex, activeSessions, logFiles, logMtime, pc, sessionId, op, calls,
                 regHist, actHist, completedCalls, ret>>

InitFiles ==
  /\ clock = 0
  /\ masterIndex = [exists |-> FALSE, content |-> <<>>]
  /\ activeSessions = [exists |-> FALSE, valid |-> TRUE, map |-> EmptyMap]
  /\ logFiles = EmptyMap
  /\ logMtime = EmptyMap
  /\ regHist = <<>>
  /\ actHist = <<>>
  /\ completedCalls = {}

----------------------------------------------------------------------------
(* Text: bytes are 0..255, strings are sequences of code points *)

\* Buffer.toString(): UTF-8 decoding of one chunk on its own; a byte that is not
\* part of a complete sequence inside the chunk becomes U+FFFD (sequences of one
\* and two bytes are modelled)
RECURSIVE Decode(_)
Decode(b) ==
  IF b = <<>> THEN <<>>
  ELSE IF b[1] < 128 THEN <<b[1]>> \o Decode(Tail(b))
  ELSE IF b[1] \in 194..223 /\ Len(b) >= 2 /\ b[2] \in 128..191
       THEN <<(b[1] - 192) * 64 + (b[2] - 128)>> \o Decode(Tail(Tail(b)))
  ELSE <<65533>> \o Decode(Tail(b))

\* the UTF-8 encoding process.stdout.write(string) applies
RECURSIVE Encode(_)
Encode(s) ==
  IF s = <<>> THEN <<>>
  ELSE (IF s[1] < 128 THEN <<s[1]>>
        ELSE IF s[1] < 2048 THEN <<192 + (s[1] \div 64), 128 + (s[1] % 64)>>
        ELSE <<224 + (s[1] \div 4096), 128 + ((s[1] \div 64) % 64), 128 + (s[1] % 64)>>)
       \o Encode(Tail(s))

\* strip-ansi: ESC, introducer characters, numeric parameters, one final character
AnsiIntro == {91, 93, 40, 41, 35, 59, 63}
AnsiFinal == (48..57) \cup (65..80) \cup (82..84) \cup {90, 99} \cup (102..110)
             \cup (113..117) \cup {121, 61, 62, 60, 126}

RECURSIVE AnsiEnd(_, _, _)
\* the index of the final character of the escape sequence that starts at s[1],
\* 0 if there is none; i is the scan position, phase 1 = introducers, 2 = parameters
AnsiEnd(s, i, phase) ==
  IF i > Len(s) THEN 0
  ELSE IF phase = 1 /\ s[i] \in AnsiIntro /\ AnsiEnd(s, i + 1, 1) > 0 THEN AnsiEnd(s, i + 1, 1)
  ELSE IF s[i] \in (48..57) \cup {59} /\ AnsiEnd(s, i + 1, 2) > 0 THEN AnsiEnd(s, i + 1, 2)
  ELSE IF s[i] \in AnsiFinal THEN i
  ELSE 0

RECURSIVE stripAnsi(_)
stripAnsi(s) ==
  IF s = <<>> THEN <<>>
  ELSE IF s[1] = 27 /\ AnsiEnd(s, 2, 1) > 0
       THEN stripAnsi(SubSeq(s, AnsiEnd(s, 2, 1) + 1, Len(s)))
  ELSE <<s[1]>> \o stripAnsi(Tail(s))

\* "[REDACTED]"
Placeholder == <<91, 82, 69, 68, 65, 67, 84, 69, 68, 93>>

RECURSIVE ValueEnd(_, _)
\* the index of the last character of the run without white space that starts at s[i]
ValueEnd(s, i) ==
  IF i < Len(s) /\ s[i + 1] \notin {32, 10} THEN ValueEnd(s, i + 1) ELSE i

RECURSIVE redactSecretsPartial(_)
\* a rule that masks the value but for its first character, which it puts after
\* the placeholder
redactSecretsPartial(s) ==
  IF s = <<>> THEN <<>>
  ELSE IF Len(s) >= 3 /\ s[1] = 75 /\ s[2] = 61 /\ s[3] \notin {32, 10}
       THEN <<75, 61>> \o Placeholder \o <<s[3]>>
            \o redactSecretsPartial(SubSeq(s, ValueEnd(s, 3) + 1, Len(s)))
  ELSE <<s[1]>> \o redactSecretsPartial(Tail(s))

\* redactSecrets (src/redact-secrets.ts): the rule for KEY=value, with the key K
RECURSIVE redactSecrets(_)
redactSecrets(s) ==
  IF s = <<>> THEN <<>>
  ELSE IF Len(s) >= 3 /\ s[1] = 75 /\ s[2] = 61 /\ s[3] \notin {32, 10}
       THEN <<75, 61>> \o Placeholder \o redactSecrets(SubSeq(s, ValueEnd(s, 3) + 1, Len(s)))
  ELSE <<s[1]>> \o redactSecrets(Tail(s))

\* the chunks a child can deliver: "a", the two bytes of U+00E9 together and
\* apart, ESC [ m, and K=s
Chunks == {<<97>>, <<195, 169>>, <<195>>, <<169>>, <<27, 91, 109>>, <<75, 61, 115>>}

\* the codes a child can exit with
ExitCodes == {0, 1, 137}

\* the code argument of 'close': <<c>> for a number, <<>> for null (killed by a signal)
CloseCodes == {<<c>> : c \in ExitCodes} \cup {<<>>}

\* the code of the 'close' that follows a failed spawn: the negated errno (ENOENT)
SpawnFailCode == <<-2>>

----------------------------------------------------------------------------
(* wrapper.ts: runCommandWrapper *)

NoStream == [state |-> "none", ended |-> FALSE, pos |-> 0]
\* signal: the signal the wrapper has sent to the child with child.kill
NoChild == [state |-> "none", errorEmitted |-> FALSE, chunks |-> 0, code |-> <<>>,
            signal |-> "none"]
Pending == [kind |-> "pending", code |-> <<>>]

\* a cell of a log file no write has filled
Hole == [by |-> 0, w |-> [kind |-> "hole", text |-> <<>>, code |-> <<>>]]

\* the file after a write of one cell at position pos (a stream writes at its own
\* position; a file another process has truncated meanwhile gets a hole)
RECURSIVE WriteAt(_, _, _)
WriteAt(content, pos, cell) ==
  IF pos < Len(content) THEN [content EXCEPT ![pos + 1] = cell]
  ELSE IF pos = Len(content) THEN Append(content, cell)
  ELSE WriteAt(Append(content, Hole), pos, cell)

\* the process still runs JavaScript
Alive(p) == outcome[p].kind \notin {"exited", "thrown", "killed"}

\* logStream.write(w): the stream after the call; ok is whether the disk accepts it.
\* A write that fails, and a write after end, leave the stream with an error to report
StreamAfterWrite(st, ok) ==
  IF st.state = "open" /\ ~st.ended /\ ok THEN [st EXCEPT !.pos = @ + 1]
  ELSE IF st.state = "open" THEN [st EXCEPT !.state = "failed"]
  ELSE st

\* logStream.write(w): the log files after the call
FilesAfterWrite(p, w, ok) ==
  LET st == logStream[p]
      id == sessionId[p]
  IN IF st.state = "open" /\ ~st.ended /\ ok /\ id \in DOMAIN logFiles
     THEN [logFiles EXCEPT ![id] = WriteAt(@, st.pos, [by |-> p, w |-> w])]
     ELSE logFiles

\* the file createWriteStream(path, { flags: 'w' }) leaves: created or truncated
FilesAfterOpen(id) == [x \in DOMAIN logFiles \cup {id} |-> IF x = id THEN <<>> ELSE logFiles[x]]

\* the modification times after a write that reached the file of id at time now
MtimeSet(id, now) == [x \in DOMAIN logMtime \cup {id} |-> IF x = id THEN now ELSE logMtime[x]]

\* logStream.write(w): the modification times after the call
MtimeAfterWrite(p, ok) ==
  IF logStream[p].state = "open" /\ ~logStream[p].ended /\ ok /\ sessionId[p] \in DOMAIN logFiles
  THEN MtimeSet(sessionId[p], clock)
  ELSE logMtime

\* an exception leaves the async function: its promise is rejected, nothing else runs
Throw(p) ==
  /\ pc' = [pc EXCEPT ![p] = "done"]
  /\ outcome' = [outcome EXCEPT ![p] = [kind |-> "thrown", code |-> <<>>]]

\* line 16 and storage.ts:14-18: ensureStorageExists(); mkdirSync may throw
EnsureStorage(p, ok) ==
  /\ pc[p] = "start"
  /\ IF dirExists \/ ok
     THEN /\ dirExists' = TRUE
          /\ pc' = [pc EXCEPT ![p] = "generate"]
          /\ UNCHANGED outcome
     ELSE /\ Throw(p)
          /\ UNCHANGED dirExists
  /\ UNCHANGED <<clock, masterIndex, activeSessions, logFiles, logMtime, sessionId, op, calls, histVars,
                 logStream, hasError, streamClosed, writes, child, recv, termOut, termErr,
                 warnings, endCalls, pendingCb, settles, ret>>

\* lines 19-20: generateSessionId()
Generate(p) ==
  /\ pc[p] = "generate"
  /\ \E r \in RandomValues : sessionId' = [sessionId EXCEPT ![p] = generateSessionId(clock, r)]
  /\ pc' = [pc EXCEPT ![p] = "register"]
  /\ UNCHANGED <<clock, fsVars, op, calls, histVars, wrapVars, ret>>

\* a wrapper that goes on to the log file without registering the session
RegisterSkipped(p) ==
  /\ pc[p] = "register"
  /\ pc' = [pc EXCEPT ![p] = "open"]
  /\ UNCHANGED <<clock, fsVars, sessionId, op, calls, histVars, wrapVars, ret>>

\* line 23: registerSession(sessionId, command, args): three arguments, so the
\* cwd parameter of session.ts:44 is undefined
Register(p) ==
  /\ pc[p] = "register"
  /\ \E c \in Cmds :
       op' = [op EXCEPT ![p] = [NoOp EXCEPT !.name = "registerSession", !.step = "read",
                                            !.id = sessionId[p], !.dir = "undefined",
                                            !.cmd = c]]
  /\ pc' = [pc EXCEPT ![p] = "open"]
  /\ UNCHANGED <<clock, fsVars, sessionId, calls, histVars, wrapVars, ret>>

\* session.ts:53-56: readFileSync or writeFileSync throws; registerSession has no
\* try, wrapper.ts:23 has none either
RegisterThrow(p) ==
  /\ op[p].name = "registerSession"
  /\ Return(p)
  /\ IF pc[p] = "api" THEN UNCHANGED <<pc, outcome>> ELSE Throw(p)
  /\ UNCHANGED <<clock, fsVars, sessionId, calls, histVars, logStream, hasError,
                 streamClosed, writes, child, recv, termOut, termErr, warnings, endCalls,
                 pendingCb, settles, ret>>

\* lines 26-35: createWriteStream, logStream.write(header); ok is whether the file
\* can be opened
OpenLog(p, ok) ==
  /\ pc[p] = "open" /\ op[p].name = "none"
  /\ LET w == [kind |-> "header", text |-> <<>>, code |-> <<>>]
     IN /\ writes' = [writes EXCEPT ![p] = Append(@, w)]
        /\ IF ok
           THEN /\ logStream' = [logStream EXCEPT ![p] = [NoStream EXCEPT !.state = "open", !.pos = 1]]
                /\ logFiles' = [FilesAfterOpen(sessionId[p]) EXCEPT
                                  ![sessionId[p]] = <<[by |-> p, w |-> w]>>]
                /\ logMtime' = MtimeSet(sessionId[p], clock)
           ELSE /\ logStream' = [logStream EXCEPT ![p] = [NoStream EXCEPT !.state = "failed"]]
                /\ UNCHANGED <<logFiles, logMtime>>
  /\ pc' = [pc EXCEPT ![p] = "spawn"]
  /\ UNCHANGED <<clock, dirExists, masterIndex, activeSessions, sessionId, op, calls, histVars,
                 hasError, streamClosed, child, recv, termOut, termErr, warnings, endCalls,
                 pendingCb, settles, outcome, ret>>

\* lines 37-46: spawn; ok is whether the command can be started
Spawn(p, ok) ==
  /\ pc[p] = "spawn"
  /\ child' = [child EXCEPT ![p].state = IF ok THEN "running" ELSE "failed"]
  /\ pc' = [pc EXCEPT ![p] = "running"]
  /\ UNCHANGED <<clock, fsVars, sessionId, op, calls, histVars, logStream, hasError,
                 streamClosed, writes, recv, termOut, termErr, warnings, endCalls,
                 pendingCb, settles, outcome, ret>>

\* lines 49-52: logStream.on('error')
LogStreamOnError(p) ==
  /\ pc[p] = "running" /\ Alive(p)
  /\ logStream[p].state = "failed"
  /\ logStream' = [logStream EXCEPT ![p].state = "errored"]
  /\ warnings' = [warnings EXCEPT ![p] = @ + 1]
  /\ hasError' = [hasError EXCEPT ![p] = TRUE]
  /\ UNCHANGED <<clock, fsVars, pc, sessionId, op, calls, histVars, streamClosed, writes,
                 child, recv, termOut, termErr, endCalls, pendingCb, settles, outcome, ret>>

\* a data handler that logs the output as it came, neither stripped nor redacted
LogChunkRaw(p, output, ok) ==
  IF ~hasError[p]
  THEN LET w == [kind |-> "chunk", text |-> output, code |-> <<>>]
       IN /\ writes' = [writes EXCEPT ![p] = Append(@, w)]
          /\ logStream' = [logStream EXCEPT ![p] = StreamAfterWrite(@, ok)]
          /\ logFiles' = FilesAfterWrite(p, w, ok)
          /\ logMtime' = MtimeAfterWrite(p, ok)
  ELSE UNCHANGED <<writes, logStream, logFiles, logMtime>>

\* lines 62-66 and 77-81: the log half of a data handler
LogChunk(p, output, ok) ==
  IF ~hasError[p]
  THEN LET cleanOutput == stripAnsi(output)
           redactedOutput == redactSecrets(cleanOutput)
           w == [kind |-> "chunk", text |-> redactedOutput, code |-> <<>>]
       IN /\ writes' = [writes EXCEPT ![p] = Append(@, w)]
          /\ logStream' = [logStream EXCEPT ![p] = StreamAfterWrite(@, ok)]
          /\ logFiles' = FilesAfterWrite(p, w, ok)
          /\ logMtime' = MtimeAfterWrite(p, ok)
  ELSE UNCHANGED <<writes, logStream, logFiles, logMtime>>

\* a data event can be delivered: the child runs and its pipes are open
CanDeliver(p) ==
  /\ pc[p] = "running" /\ Alive(p)
  /\ child[p].state = "running"
  /\ child[p].chunks < MaxChunks

\* lines 55-67: child.stdout.on('data')
StdoutData(p, data, ok) ==
  /\ CanDeliver(p)
  /\ LET output == Decode(data)
     IN /\ termOut' = [termOut EXCEPT ![p] = @ \o Encode(output)]
        /\ LogChunk(p, output, ok)
  /\ recv' = [recv EXCEPT ![p] = Append(@, [stream |-> "stdout", data |-> data])]
  /\ child' = [child EXCEPT ![p].chunks = @ + 1]
  /\ UNCHANGED <<clock, dirExists, masterIndex, activeSessions, pc, sessionId, op, calls,
                 histVars, hasError, streamClosed, termErr, warnings, endCalls, pendingCb,
                 settles, outcome, ret>>

\* lines 70-82: child.stderr.on('data')
StderrData(p, data, ok) ==
  /\ CanDeliver(p)
  /\ LET output == Decode(data)
     IN /\ termErr' = [termErr EXCEPT ![p] = @ \o Encode(output)]
        /\ LogChunk(p, output, ok)
  /\ recv' = [recv EXCEPT ![p] = Append(@, [stream |-> "stderr", data |-> data])]
  /\ child' = [child EXCEPT ![p].chunks = @ + 1]
  /\ UNCHANGED <<clock, dirExists, masterIndex, activeSessions, pc, sessionId, op, calls,
                 histVars, hasError, streamClosed, termOut, warnings, endCalls, pendingCb,
                 settles, outcome, ret>>

\* handlers that finalize without looking at streamClosed
FinalizeUnguarded(p, w, cb, ok) ==
  /\ streamClosed' = [streamClosed EXCEPT ![p] = TRUE]
  /\ writes' = [writes EXCEPT ![p] = Append(@, w)]
  /\ logStream' = [logStream EXCEPT ![p] = [StreamAfterWrite(@, ok) EXCEPT !.ended = TRUE]]
  /\ logFiles' = FilesAfterWrite(p, w, ok)
  /\ logMtime' = MtimeAfterWrite(p, ok)
  /\ endCalls' = [endCalls EXCEPT ![p] = @ + 1]
  /\ pendingCb' = [pendingCb EXCEPT ![p] = Append(@, cb)]

\* handlers that test streamClosed but never set it
FinalizeNoFlag(p, w, cb, ok) ==
  IF ~streamClosed[p]
  THEN /\ streamClosed' = streamClosed
       /\ writes' = [writes EXCEPT ![p] = Append(@, w)]
       /\ logStream' = [logStream EXCEPT ![p] = [StreamAfterWrite(@, ok) EXCEPT !.ended = TRUE]]
       /\ logFiles' = FilesAfterWrite(p, w, ok)
       /\ logMtime' = MtimeAfterWrite(p, ok)
       /\ endCalls' = [endCalls EXCEPT ![p] = @ + 1]
       /\ pendingCb' = [pendingCb EXCEPT ![p] = Append(@, cb)]
  ELSE UNCHANGED <<streamClosed, writes, logStream, logFiles, logMtime, endCalls, pendingCb>>

\* lines 86-91 and 96-102: the guarded part of the 'error' and 'close' handlers:
\* set streamClosed, write the footer w, logStream.end(cb)
Finalize(p, w, cb, ok) ==
  IF ~streamClosed[p]
  THEN /\ streamClosed' = [streamClosed EXCEPT ![p] = TRUE]
       /\ writes' = [writes EXCEPT ![p] = Append(@, w)]
       /\ logStream' = [logStream EXCEPT ![p] = [StreamAfterWrite(@, ok) EXCEPT !.ended = TRUE]]
       /\ logFiles' = FilesAfterWrite(p, w, ok)
       /\ logMtime' = MtimeAfterWrite(p, ok)
       /\ endCalls' = [endCalls EXCEPT ![p] = @ + 1]
       /\ pendingCb' = [pendingCb EXCEPT ![p] = Append(@, cb)]
  ELSE UNCHANGED <<streamClosed, writes, logStream, logFiles, logMtime, endCalls, pendingCb>>

\* lines 85-93: child.on('error'); the child could not be started
ChildOnError(p, ok) ==
  /\ pc[p] = "running" /\ Alive(p)
  /\ child[p].state = "failed" /\ ~child[p].errorEmitted
  /\ child' = [child EXCEPT ![p].errorEmitted = TRUE]
  /\ Finalize(p, [kind |-> "errorFooter", text |-> <<>>, code |-> <<>>],
              [kind |-> "reject", code |-> <<>>], ok)
  /\ UNCHANGED <<clock, dirExists, masterIndex, activeSessions, pc, sessionId, op, calls,
                 histVars, hasError, recv, termOut, termErr, warnings, settles, outcome, ret>>

\* the 'close' events the runtime can deliver: the exit of a running child, or the
\* close that follows the 'error' of a failed spawn
CanClose(p, code) ==
  \/ child[p].state = "running" /\ code \in CloseCodes
  \/ child[p].state = "failed" /\ child[p].errorEmitted /\ code = SpawnFailCode

\* lines 95-102 and 112-113: child.on('close')
ChildOnClose(p, code, ok) ==
  /\ pc[p] = "running" /\ Alive(p)
  /\ CanClose(p, code)
  /\ child' = [child EXCEPT ![p].state = "closed", ![p].code = code]
  /\ Finalize(p, [kind |-> "footer", text |-> <<>>, code |-> code],
              [kind |-> "close", code |-> code], ok)
  /\ UNCHANGED <<clock, dirExists, masterIndex, activeSessions, pc, sessionId, op, calls,
                 histVars, hasError, recv, termOut, termErr, warnings, settles, outcome, ret>>

\* a test for success that takes every falsy code, null included, for 0
IsSuccessFalsy(code) == code \in {<<0>>, <<>>}

\* line 103: code === 0
IsSuccess(code) == code = <<0>>

\* a wrapper that exits with 1 whatever the child's code was
ExitStatusOne(code) == 1

\* line 109: code ?? 1
ExitStatus(code) == IF code = <<>> THEN 1 ELSE code[1]

\* what a callback of logStream.end does to the invocation: reject(error) (line 90),
\* resolve() (line 105) or process.exit (line 109); a settled promise stays settled
Settle(cb, old) ==
  IF cb.kind = "close" /\ ~IsSuccess(cb.code)
  THEN [kind |-> "exited", code |-> <<ExitStatus(cb.code)>>]
  ELSE IF old.kind # "pending" THEN old
  ELSE IF cb.kind = "reject" THEN [kind |-> "rejected", code |-> <<>>]
  ELSE [kind |-> "resolved", code |-> <<>>]

\* a callback given to logStream.end that runs on the 'finish' of the stream only:
\* never, when the stream has failed
EndCallbackOnFinish(p) ==
  /\ pc[p] = "running" /\ Alive(p)
  /\ pendingCb[p] # <<>>
  /\ logStream[p].state = "open"
  /\ outcome' = [outcome EXCEPT ![p] = Settle(Head(pendingCb[p]), @)]
  /\ pendingCb' = [pendingCb EXCEPT ![p] = Tail(@)]
  /\ settles' = [settles EXCEPT ![p] = @ + 1]
  /\ UNCHANGED <<clock, fsVars, pc, sessionId, op, calls, histVars, logStream, hasError,
                 streamClosed, writes, child, recv, termOut, termErr, warnings, endCalls, ret>>

\* lines 89-91 and 102-111: a callback given to logStream.end runs; the runtime
\* calls it when the stream has finished and also when the stream has failed
EndCallback(p) ==
  /\ pc[p] = "running" /\ Alive(p)
  /\ pendingCb[p] # <<>>
  /\ outcome' = [outcome EXCEPT ![p] = Settle(Head(pendingCb[p]), @)]
  /\ pendingCb' = [pendingCb EXCEPT ![p] = Tail(@)]
  /\ settles' = [settles EXCEPT ![p] = @ + 1]
  /\ UNCHANGED <<clock, fsVars, pc, sessionId, op, calls, histVars, logStream, hasError,
                 streamClosed, writes, child, recv, termOut, termErr, warnings, endCalls, ret>>

\* SIGINT reaches the wrapper while the child runs. wrapper.ts installs no handler
\* for it (no process.on('SIGINT')), so the default action of the runtime ends the
\* process at once: no handler runs after it and child.kill is never called
Interrupt(p) ==
  /\ pc[p] = "running" /\ Alive(p)
  /\ child[p].state = "running"
  /\ outcome' = [outcome EXCEPT ![p] = [kind |-> "killed", code |-> <<>>]]
  /\ UNCHANGED <<clock, fsVars, pc, sessionId, op, calls, histVars, logStream, hasError,
                 streamClosed, writes, child, recv, termOut, termErr, warnings, endCalls,
                 pendingCb, settles, ret>>

InitWrapVars ==
  /\ logStream = [p \in Procs |-> NoStream]
  /\ hasError = [p \in Procs |-> FALSE]
  /\ streamClosed = [p \in Procs |-> FALSE]
  /\ writes = [p \in Procs |-> <<>>]
  /\ child = [p \in Procs |-> NoChild]
  /\ recv = [p \in Procs |-> <<>>]
  /\ termOut = [p \in Procs |-> <<>>]
  /\ termErr = [p \in Procs |-> <<>>]
  /\ warnings = [p \in Procs |-> 0]
  /\ endCalls = [p \in Procs |-> 0]
  /\ pendingCb = [p \in Procs |-> <<>>]
  /\ settles = [p \in Procs |-> 0]
  /\ outcome = [p \in Procs |-> Pending]

(* One invocation of the wrapper, with every failure of the disk and of the spawn;
   the second in which it starts is second 0 *)

Init ==
  /\ InitFiles
  /\ InitWrapVars
  /\ dirExists \in BOOLEAN
  /\ pc = [p \in Procs |-> IF p = 1 THEN "start" ELSE "off"]
  /\ sessionId = [p \in Procs |-> NoId]
  /\ op = [p \in Procs |-> NoOp]
  /\ ret = [p \in Procs |-> NoRet]
  /\ calls = 0

Next ==
  \/ \E p \in Procs :
       \/ \E ok \in BOOLEAN : EnsureStorage(p, ok)
       \/ Generate(p)
       \/ Register(p)
       \/ RegisterRead(p)
       \/ RegisterWrite(p)
       \/ RegisterThrow(p)
       \/ \E ok \in BOOLEAN : OpenLog(p, ok)
       \/ \E ok \in BOOLEAN : Spawn(p, ok)
       \/ LogStreamOnError(p)
       \/ \E data \in Chunks, ok \in BOOLEAN : StdoutData(p, data, ok)
       \/ \E data \in Chunks, ok \in BOOLEAN : StderrData(p, data, ok)
       \/ \E ok \in BOOLEAN : ChildOnError(p, ok)
       \/ \E code \in CloseCodes \cup {SpawnFailCode}, ok \in BOOLEAN : ChildOnClose(p, code, ok)
       \/ EndCallback(p)
       \/ Interrupt(p)

Spec == Init /\ [][Next]_vars

\* the chunks of the specifications that do not look at the text: "a"
ConcChunks == {<<97>>}

(* One invocation of the wrapper with every failure, under the scheduling of the
   runtime: a callback that is due runs, and the 'error' event of a child that
   could not be started is emitted *)

NextFair ==
  \/ \E p \in Procs :
       \/ \E ok \in BOOLEAN : EnsureStorage(p, ok)
       \/ Generate(p)
       \/ Register(p)
       \/ RegisterRead(p)
       \/ RegisterWrite(p)
       \/ RegisterThrow(p)
       \/ \E ok \in BOOLEAN : OpenLog(p, ok)
       \/ \E ok \in BOOLEAN : Spawn(p, ok)
       \/ LogStreamOnError(p)
       \/ \E data \in ConcChunks, ok \in BOOLEAN : StdoutData(p, data, ok)
       \/ \E data \in ConcChunks, ok \in BOOLEAN : StderrData(p, data, ok)
       \/ \E ok \in BOOLEAN : ChildOnError(p, ok)
       \/ \E code \in CloseCodes \cup {SpawnFailCode}, ok \in BOOLEAN : ChildOnClose(p, code, ok)
       \/ EndCallback(p)
       \/ Interrupt(p)

SpecFair ==
  /\ Init
  /\ [][NextFair]_vars
  /\ \A p \in Procs : WF_vars(EndCallback(p))
  /\ \A p \in Procs : WF_vars(\E ok \in BOOLEAN : ChildOnError(p, ok))

(* Concurrent invocations of the wrapper on a disk that works *)

InitConc ==
  /\ InitFiles
  /\ InitWrapVars
  /\ dirExists \in BOOLEAN
  /\ pc = [p \in Procs |-> "start"]
  /\ sessionId = [p \in Procs |-> NoId]
  /\ op = [p \in Procs |-> NoOp]
  /\ ret = [p \in Procs |-> NoRet]
  /\ calls = 0

NextConc ==
  \/ Tick
  \/ \E p \in Procs :
       \/ EnsureStorage(p, TRUE)
       \/ Generate(p)
       \/ Register(p)
       \/ RegisterRead(p)
       \/ RegisterWrite(p)
       \/ OpenLog(p, TRUE)
       \/ Spawn(p, TRUE)
       \/ \E data \in ConcChunks : StdoutData(p, data, TRUE)
       \/ \E code \in {<<0>>, <<1>>} : ChildOnClose(p, code, TRUE)
       \/ EndCallback(p)

SpecConc == InitConc /\ [][NextConc]_vars

(* Processes that call the functions of session.ts in any order, all within second 0 *)

InitSession ==
  /\ InitFiles
  /\ InitWrapVars
  /\ dirExists = TRUE
  /\ pc = [p \in Procs |-> "api"]
  /\ sessionId = [p \in Procs |-> NoId]
  /\ op = [p \in Procs |-> NoOp]
  /\ ret = [p \in Procs |-> NoRet]
  /\ calls = 0

NextSession ==
  \/ \E p \in Procs :
       \/ ApiGenerate(p)
       \/ ApiRegister(p)
       \/ ApiMarkActive(p)
       \/ ApiMarkCompleted(p)
       \/ RegisterRead(p)
       \/ RegisterWrite(p)
       \/ MarkActiveRead(p)
       \/ MarkActiveWrite(p)
       \/ MarkCompletedRead(p)
       \/ MarkCompletedWrite(p)
       \/ MarkCompletedUnlink(p)

SpecSession == InitSession /\ [][NextSession]_vars

(* Sessions that go through the life cycle the functions of session.ts are written
   for: allocate the id, create the log file, markSessionActive, run,
   markSessionCompleted; all within second 0, with at most MaxCalls calls of the
   functions of session.ts *)

\* what a process can find in active-sessions.json when it starts: no file, an
\* empty object, or content that is not JSON (a writeFileSync that was interrupted
\* after the file was truncated leaves such a file)
RegistryStates ==
  {[exists |-> FALSE, valid |-> TRUE, map |-> EmptyMap],
   [exists |-> TRUE, valid |-> TRUE, map |-> EmptyMap],
   [exists |-> TRUE, valid |-> FALSE, map |-> EmptyMap]}

\* the arguments of getActiveSessions: none, or a project directory
DirArgs == {<<>>, <<"">>, <<"/a">>, <<"/b">>}

\* const sessionId = generateSessionId()
ClientGenerate(p) ==
  /\ pc[p] = "lcGenerate"
  /\ \E r \in RandomValues : sessionId' = [sessionId EXCEPT ![p] = generateSessionId(clock, r)]
  /\ pc' = [pc EXCEPT ![p] = "lcOpen"]
  /\ UNCHANGED <<wrapVars, clock, fsVars, op, calls, histVars, ret>>

\* createWriteStream(getSessionLogPath(sessionId), { flags: 'w' }) and the header
ClientOpenLog(p) ==
  /\ pc[p] = "lcOpen"
  /\ logFiles' = [FilesAfterOpen(sessionId[p]) EXCEPT
                    ![sessionId[p]] = <<[by |-> p, w |-> [kind |-> "header", text |-> <<>>,
                                                        code |-> <<>>]]>>]
  /\ logMtime' = MtimeSet(sessionId[p], clock)
  /\ pc' = [pc EXCEPT ![p] = "lcActive"]
  /\ UNCHANGED <<wrapVars, clock, dirExists, masterIndex, activeSessions, sessionId, op, calls,
                 histVars, ret>>

\* markSessionActive(sessionId, process.cwd())
ClientMarkActive(p) ==
  /\ pc[p] = "lcActive" /\ calls < MaxCalls
  /\ op' = [op EXCEPT ![p] = [NoOp EXCEPT !.name = "markSessionActive", !.step = "read",
                                          !.id = sessionId[p], !.dir = ProjectDir(p)]]
  /\ calls' = calls + 1
  /\ pc' = [pc EXCEPT ![p] = "lcRun"]
  /\ UNCHANGED <<wrapVars, clock, fsVars, sessionId, histVars, ret>>

\* getActiveSessions(...) while the session runs: one read of the file, which ends
\* with the array or with the exception of JSON.parse (line 165)
ClientGetActive(p, arg) ==
  /\ pc[p] = "lcRun" /\ op[p].name = "none" /\ calls < MaxCalls
  /\ calls' = calls + 1
  /\ ret' = [ret EXCEPT ![p] = [name |-> "getActiveSessions", arg |-> arg,
                                 value |-> IF ParseFails THEN <<>> ELSE getActiveSessions(arg),
                                 threw |-> ParseFails]]
  /\ UNCHANGED <<wrapVars, clock, fsVars, pc, sessionId, op, histVars>>

\* markSessionCompleted(sessionId, deleteLog)
ClientMarkCompleted(p, del) ==
  /\ pc[p] = "lcRun" /\ op[p].name = "none" /\ calls < MaxCalls
  /\ calls' = calls + 1
  /\ op' = [op EXCEPT ![p] = [NoOp EXCEPT !.name = "markSessionCompleted", !.step = "read",
                                          !.id = sessionId[p], !.del = del]]
  /\ completedCalls' = completedCalls \cup {sessionId[p]}
  /\ pc' = [pc EXCEPT ![p] = "lcEnd"]
  /\ UNCHANGED <<wrapVars, clock, fsVars, sessionId, regHist, actHist, ret>>

InitLifecycle ==
  /\ clock = 0
  /\ dirExists = TRUE
  /\ activeSessions \in RegistryStates
  /\ masterIndex = [exists |-> TRUE,
                    content |-> <<RegisterEntry(0, generateSessionId(0, 0), "ls", "/a")>>]
  /\ logFiles = EmptyMap
  /\ logMtime = EmptyMap
  /\ regHist = <<>>
  /\ actHist = <<>>
  /\ completedCalls = {}
  /\ InitWrapVars
  /\ pc = [p \in Procs |-> "lcGenerate"]
  /\ sessionId = [p \in Procs |-> NoId]
  /\ op = [p \in Procs |-> NoOp]
  /\ ret = [p \in Procs |-> NoRet]
  /\ calls = 0

NextLifecycle ==
  \/ \E p \in Procs :
       \/ ClientGenerate(p)
       \/ ClientOpenLog(p)
       \/ ClientMarkActive(p)
       \/ \E arg \in DirArgs : ClientGetActive(p, arg)
       \/ \E del \in BOOLEAN : ClientMarkCompleted(p, del)
       \/ MarkActiveRead(p)
       \/ MarkActiveWrite(p)
       \/ MarkCompletedRead(p)
       \/ MarkCompletedWrite(p)
       \/ MarkCompletedUnlink(p)
       \/ ParseThrow(p)

SpecLifecycle == InitLifecycle /\ [][NextLifecycle]_vars

\* Clients that call one function at a time: no call starts while another one is
\* between its read and its return.  markSessionCompleted is called for a session
\* with or without a log file, marked active or not, and any number of times.
NoCallInFlight == \A q \in Procs : op[q].name = "none"

\* markSessionCompleted(sessionId, deleteLog), one call at a time
SeqMarkCompleted(p, del) ==
  /\ NoCallInFlight
  /\ pc[p] \in {"lcOpen", "lcActive", "lcRun", "lcEnd"} /\ calls < MaxCalls
  /\ calls' = calls + 1
  /\ op' = [op EXCEPT ![p] = [NoOp EXCEPT !.name = "markSessionCompleted", !.step = "read",
                                          !.id = sessionId[p], !.del = del]]
  /\ completedCalls' = completedCalls \cup {sessionId[p]}
  /\ pc' = [pc EXCEPT ![p] = "lcEnd"]
  /\ UNCHANGED <<wrapVars, clock, fsVars, sessionId, regHist, actHist, ret>>

NextSequential ==
  \/ \E p \in Procs :
       \/ ClientGenerate(p)
       \/ ClientOpenLog(p)
       \/ NoCallInFlight /\ ClientMarkActive(p)
       \/ \E del \in BOOLEAN : SeqMarkCompleted(p, del)
       \/ MarkActiveRead(p)
       \/ MarkActiveWrite(p)
       \/ MarkCompletedRead(p)
       \/ MarkCompletedWrite(p)
       \/ MarkCompletedUnlink(p)
       \/ ParseThrow(p)

SpecSequential == InitLifecycle /\ [][NextSequential]_vars

(* The read functions of session.ts and storage.ts *)

\* one hexadecimal digit, in lower case
HexDigit(v) == IF v < 10 THEN 48 + v ELSE 87 + v

\* the session id as a string: timestamp, "-", randomBytes(2).toString('hex'); the
\* 14 digits of the timestamp are abbreviated to the digit of the second
IdText(id) ==
  <<48 + id[1], 45, HexDigit((id[2] \div 4096) % 16), HexDigit((id[2] \div 256) % 16),
    HexDigit((id[2] \div 16) % 16), HexDigit(id[2] % 16)>>

\* the ISO timestamp of an entry, abbreviated to the digit of the second, T and Z
StampText(now) == <<48 + now, 84, 90>>

\* session.ts:76: [\d-]+ matches the whole of a bracketed group
IdPattern(text) == text # <<>> /\ \A i \in 1..Len(text) : text[i] \in (48..57) \cup {45}

\* the groups in square brackets of a line of the master index, in the order of the
\* line: the timestamp and the session id (the working directories and commands of
\* the model hold no group of digits in brackets)
BracketGroups(entry) == <<StampText(entry.time), IdText(entry.id)>>

\* line.match(sessionIdPattern): the first group of the line the pattern matches,
\* as a list of at most one match
RECURSIVE FirstMatch(_)
FirstMatch(groups) ==
  IF groups = <<>> THEN <<>>
  ELSE IF IdPattern(Head(groups)) THEN <<Head(groups)>>
  ELSE FirstMatch(Tail(groups))

RECURSIVE MatchedIds(_)
\* session.ts:78-83: the loop over the lines
MatchedIds(content) ==
  IF content = <<>> THEN <<>>
  ELSE FirstMatch(BracketGroups(Head(content))) \o MatchedIds(Tail(content))

\* getAllSessionIds, lines 64-86
getAllSessionIds ==
  IF ~masterIndex.exists THEN <<>> ELSE MatchedIds(masterIndex.content)

\* Array.prototype.slice(-n): the last n elements; -0 is 0, so slice(-0) is the
\* whole array
SliceLast(a, n) ==
  IF n = 0 \/ n >= Len(a) THEN a ELSE SubSeq(a, Len(a) - n + 1, Len(a))

\* Array.prototype.reverse
Reverse(a) == [i \in 1..Len(a) |-> a[Len(a) + 1 - i]]

\* getRecentSessionIds, lines 93-96
getRecentSessionIds(count) == Reverse(SliceLast(getAllSessionIds, count))

\* the decimal digits of a number
RECURSIVE Digits(_)
Digits(n) ==
  IF n < 0 THEN <<45>> \o Digits(0 - n)
  ELSE IF n < 10 THEN <<48 + n>>
  ELSE Digits(n \div 10) \o <<48 + (n % 10)>>

\* "[timestamp] Process exited with code: " (wrapper.ts:98), the timestamp
\* abbreviated to TZ
FooterPrefix ==
  <<91, 84, 90, 93, 32, 80, 114, 111, 99, 101, 115, 115, 32, 101, 120, 105, 116, 101, 100, 32,
    119, 105, 116, 104, 32, 99, 111, 100, 101, 58, 32>>

\* `${code}`: the decimal digits of a number, "null" for null
CodeText(code) == IF code = <<>> THEN <<110, 117, 108, 108>> ELSE Digits(code[1])

\* "Process error: " and error.message (wrapper.ts:88) for the command that could
\* not be started: "spawn ls ENOENT"
ErrorFooterLine ==
  <<80, 114, 111, 99, 101, 115, 115, 32, 101, 114, 114, 111, 114, 58, 32, 115, 112, 97, 119,
    110, 32, 108, 115, 32, 69, 78, 79, 69, 78, 84>>

\* the text of one write to a log file. The header (wrapper.ts:31) has four lines:
\* the rule is abbreviated to "=", "[timestamp] Session: id" to S and the id,
\* "[timestamp] Command: ..." to C; the footer (wrapper.ts:98) is an empty line and
\* the line with the code; the error footer (wrapper.ts:88) is an empty line and the
\* line with the message; a hole reads as a NUL
WriteText(id, w) ==
  CASE w.kind = "header" -> <<61, 10, 83>> \o IdText(id) \o <<10, 67, 10, 61, 10>>
    [] w.kind = "chunk" -> w.text
    [] w.kind = "footer" -> <<10>> \o FooterPrefix \o CodeText(w.code) \o <<10>>
    [] w.kind = "errorFooter" -> <<10>> \o ErrorFooterLine \o <<10>>
    [] OTHER -> <<0>>

RECURSIVE FileText(_, _)
\* readFileSync(file, 'utf-8') of the log file of id
FileText(id, content) ==
  IF content = <<>> THEN <<>>
  ELSE WriteText(id, Head(content).w) \o FileText(id, Tail(content))

RECURSIVE Split(_, _)
\* String.prototype.split('\n'); cur is the beginning of the first line
Split(s, cur) ==
  IF \A i \in 1..Len(s) : s[i] # 10 THEN <<cur \o s>>
  ELSE LET i == CHOOSE i \in 1..Len(s) : s[i] = 10 /\ \A j \in 1..(i - 1) : s[j] # 10
       IN <<cur \o SubSeq(s, 1, i - 1)>> \o Split(SubSeq(s, i + 1, Len(s)), <<>>)

\* line.trim().length > 0
NonBlank(line) == \E i \in 1..Len(line) : line[i] \notin {32, 9, 10, 13}

RECURSIVE Filter(_)
\* lines.filter(line => line.trim().length > 0)
Filter(lines) ==
  IF lines = <<>> THEN <<>>
  ELSE (IF NonBlank(Head(lines)) THEN <<Head(lines)>> ELSE <<>>) \o Filter(Tail(lines))

RECURSIVE Join(_)
\* Array.prototype.join('\n')
Join(lines) ==
  IF lines = <<>> THEN <<>>
  ELSE IF Len(lines) = 1 THEN Head(lines)
  ELSE Head(lines) \o <<10>> \o Join(Tail(lines))

\* storage.ts:38: a comes before b in the sorted list: the later modification time
\* first; the sort is stable, files of equal time stay in the order of readdirSync,
\* taken to be the order of the names
Newer(a, b) == logMtime[a] > logMtime[b] \/ (logMtime[a] = logMtime[b] /\ IdLess(a, b))

RECURSIVE SortByMtime(_)
SortByMtime(S) ==
  IF S = {} THEN <<>>
  ELSE LET m == CHOOSE x \in S : \A y \in S \ {x} : Newer(x, y)
       IN <<m>> \o SortByMtime(S \ {m})

\* getSessionLogFiles(limit), storage.ts:25-42: the ids of the session log files;
\* `limit ? files.slice(0, limit) : files` gives every file for the limit 0
getSessionLogFiles(limit) ==
  LET files == SortByMtime(DOMAIN logFiles)
  IN IF limit # 0 /\ limit < Len(files) THEN SubSeq(files, 1, limit) ELSE files

\* storage.ts:73-74: the separator line of a file, "\n" and the file name between
\* rules; session-<id>.log is abbreviated to the id, a rule to one U+2501
Separator(id) == <<10, 9473>> \o IdText(id) \o <<9473>>

RECURSIVE Collect(_, _, _)
\* storage.ts:66-76: the loop over the files
Collect(files, allLines, totalLines) ==
  IF files = <<>> \/ Len(allLines) >= totalLines THEN allLines
  ELSE LET file == Head(files)
           lines == Filter(Split(FileText(file, logFiles[file]), <<>>))
       IN Collect(Tail(files), allLines \o <<Separator(file)>> \o lines, totalLines)

\* readRecentLogs(totalLines, maxFiles), storage.ts:50-80; the legacy file
\* session.log does not exist
readRecentLogs(totalLines, maxFiles) ==
  LET sessionFiles == getSessionLogFiles(maxFiles)
  IN IF sessionFiles = <<>> THEN <<>>
     ELSE Join(SliceLast(Collect(sessionFiles, <<>>, totalLines), totalLines))

(* One reader, and a storage directory as earlier invocations of the wrapper left
   it: in each second 0..MaxClock at most one session was started *)

\* what a second left behind: no session; or a session with the random value r that
\* is registered and has no log file (file = "none"), an empty log file ("empty"),
\* or a log file with the header, k lines of output and, when done, the footer
SessionChoices ==
  {[started |-> FALSE, r |-> 0, file |-> "none", k |-> 0, done |-> FALSE]}
  \cup [started : {TRUE}, r : RandomValues, file : {"none", "empty"}, k : {0}, done : {FALSE}]
  \cup [started : {TRUE}, r : RandomValues, file : {"log"}, k : 0..MaxChunks, done : BOOLEAN]

\* the log file of the session started in second t
LogContent(t, c) ==
  IF c.file = "empty" THEN <<>>
  ELSE <<[by |-> 1, w |-> [kind |-> "header", text |-> <<>>, code |-> <<>>]]>>
       \o [i \in 1..c.k |-> [by |-> 1, w |-> [kind |-> "chunk", text |-> <<97 + t, 10>>,
                                                code |-> <<>>]]]
       \o (IF c.done THEN <<[by |-> 1, w |-> [kind |-> "footer", text |-> <<>>,
                                               code |-> <<0>>]]>>
           ELSE <<>>)

RECURSIVE IndexAfter(_, _)
\* the master index after the registerSession calls of the seconds 0..t
IndexAfter(sc, t) ==
  IF t < 0 THEN <<>>
  ELSE IF sc[t].started
       THEN RegisterContent(IndexAfter(sc, t - 1),
                            RegisterEntry(t, generateSessionId(t, sc[t].r), "ls", "/a"))
       ELSE IndexAfter(sc, t - 1)

InitRead ==
  /\ \E sc \in [0..MaxClock -> SessionChoices] :
       LET withFile == {t \in 0..MaxClock : sc[t].started /\ sc[t].file # "none"}
           idOf == [t \in 0..MaxClock |-> generateSessionId(t, sc[t].r)]
           secondOf == [id \in {idOf[t] : t \in withFile} |->
                          CHOOSE t \in withFile : idOf[t] = id]
       IN /\ masterIndex = [exists |-> IndexAfter(sc, MaxClock) # <<>>,
                            content |-> IndexAfter(sc, MaxClock)]
          /\ logFiles = [id \in DOMAIN secondOf |-> LogContent(secondOf[id], sc[secondOf[id]])]
          /\ logMtime = [id \in DOMAIN secondOf |-> secondOf[id]]
  /\ clock = MaxClock
  /\ dirExists = TRUE
  /\ activeSessions = [exists |-> FALSE, valid |-> TRUE, map |-> EmptyMap]
  /\ regHist = <<>>
  /\ actHist = <<>>
  /\ completedCalls = {}
  /\ InitWrapVars
  /\ pc = [p \in Procs |-> IF p = 1 THEN "reader" ELSE "off"]
  /\ sessionId = [p \in Procs |-> NoId]
  /\ op = [p \in Procs |-> NoOp]
  /\ ret = [p \in Procs |-> NoRet]
  /\ calls = 0

\* the reader calls getRecentSessionIds(count)
CallGetRecentSessionIds(p, count) ==
  /\ pc[p] = "reader" /\ ret[p].name = "none"
  /\ ret' = [ret EXCEPT ![p] = [name |-> "getRecentSessionIds", arg |-> <<count>>,
                                 value |-> getRecentSessionIds(count), threw |-> FALSE]]
  /\ UNCHANGED <<wrapVars, clock, fsVars, pc, sessionId, op, calls, histVars>>

\* the reader calls getAllSessionIds()
CallGetAllSessionIds(p) ==
  /\ pc[p] = "reader" /\ ret[p].name = "none"
  /\ ret' = [ret EXCEPT ![p] = [name |-> "getAllSessionIds", arg |-> <<>>,
                                 value |-> getAllSessionIds, threw |-> FALSE]]
  /\ UNCHANGED <<wrapVars, clock, fsVars, pc, sessionId, op, calls, histVars>>

\* the reader calls readRecentLogs(totalLines, maxFiles)
CallReadRecentLogs(p, totalLines, maxFiles) ==
  /\ pc[p] = "reader" /\ ret[p].name = "none"
  /\ ret' = [ret EXCEPT ![p] = [name |-> "readRecentLogs", arg |-> <<totalLines, maxFiles>>,
                                 value |-> readRecentLogs(totalLines, maxFiles),
                                 threw |-> FALSE]]
  /\ UNCHANGED <<wrapVars, clock, fsVars, pc, sessionId, op, calls, histVars>>

NextRead ==
  \/ \E p \in Procs :
       \/ \E count \in 0..MaxCount : CallGetRecentSessionIds(p, count)
       \/ CallGetAllSessionIds(p)
       \/ \E totalLines \in 0..MaxTotalLines, maxFiles \in 0..MaxFiles :
            CallReadRecentLogs(p, totalLines, maxFiles)

SpecRead == InitRead /\ [][NextRead]_vars

(* server.ts: the tools that read the logs *)

\* \w
IsWord(c) == c \in (48..57) \cup (65..90) \cup (97..122) \cup {95}

\* \s
IsSpace(c) == c \in {9, 10, 11, 12, 13, 32, 160}

\* the lower-case form the flag i compares by
Lower(c) == IF c \in 65..90 THEN c + 32 ELSE c

\* \b before position i of s: exactly one of s[i-1] and s[i] is a word character
Boundary(s, i) ==
  (i - 1 \in 1..Len(s) /\ IsWord(s[i - 1])) # (i \in 1..Len(s) /\ IsWord(s[i]))

\* the literal lit stands at position i of s; ci: compared without case
LitAt(s, i, lit, ci) ==
  /\ i >= 1 /\ i + Len(lit) - 1 <= Len(s)
  /\ \A k \in 1..Len(lit) :
       IF ci THEN Lower(s[i + k - 1]) = Lower(lit[k]) ELSE s[i + k - 1] = lit[k]

\* a pattern made of a literal: \b before it (left), \b after it (right), flag i (ci)
Word(lit, left, right, ci) ==
  [kind |-> "word", lit |-> lit, left |-> left, right |-> right, ci |-> ci]

\* "Process exited with code: "
ExitText ==
  <<80, 114, 111, 99, 101, 115, 115, 32, 101, 120, 105, 116, 101, 100, 32, 119, 105, 116, 104,
    32, 99, 111, 100, 101, 58, 32>>

\* "Process exited with code"
ExitTextShort == SubSeq(ExitText, 1, Len(ExitText) - 2)

\* /\berror:/i
ReErrorColon == Word(<<101, 114, 114, 111, 114, 58>>, TRUE, FALSE, TRUE)
\* /\bError\b/
ReError == Word(<<69, 114, 114, 111, 114>>, TRUE, TRUE, FALSE)
\* /\bexception:/i
ReExceptionColon == Word(<<101, 120, 99, 101, 112, 116, 105, 111, 110, 58>>, TRUE, FALSE, TRUE)
\* /\bException\b/
ReException == Word(<<69, 120, 99, 101, 112, 116, 105, 111, 110>>, TRUE, TRUE, FALSE)
\* /\bfailed\b/i
ReFailed == Word(<<102, 97, 105, 108, 101, 100>>, TRUE, TRUE, TRUE)
\* /\bTypeError\b/
ReTypeError == Word(<<84, 121, 112, 101, 69, 114, 114, 111, 114>>, TRUE, TRUE, FALSE)
\* /\bSyntaxError\b/
ReSyntaxError == Word(<<83, 121, 110, 116, 97, 120, 69, 114, 114, 111, 114>>, TRUE, TRUE, FALSE)
\* /\bReferenceError\b/
ReReferenceError ==
  Word(<<82, 101, 102, 101, 114, 101, 110, 99, 101, 69, 114, 114, 111, 114>>, TRUE, TRUE, FALSE)
\* /Process exited with code: [^0]/
ReExitNonZero == [kind |-> "exit", lit |-> ExitText, left |-> FALSE, right |-> FALSE, ci |-> FALSE]
\* /Process exited with code: /, which takes any code
ReExitAny == Word(ExitText, FALSE, FALSE, FALSE)
\* /Process exited with code/
ReExit == Word(ExitTextShort, FALSE, FALSE, FALSE)
\* /^\s+at\s+/
ReStack == [kind |-> "stack", lit |-> <<97, 116>>, left |-> FALSE, right |-> FALSE, ci |-> FALSE]

\* pattern.test(line)
Test(pattern, line) ==
  CASE pattern.kind = "word" ->
         \E i \in 1..Len(line) :
           /\ LitAt(line, i, pattern.lit, pattern.ci)
           /\ pattern.left => Boundary(line, i)
           /\ pattern.right => Boundary(line, i + Len(pattern.lit))
    [] pattern.kind = "exit" ->
         \E i \in 1..Len(line) :
           /\ LitAt(line, i, pattern.lit, FALSE)
           /\ i + Len(pattern.lit) <= Len(line)
           /\ line[i + Len(pattern.lit)] # 48
    [] pattern.kind = "stack" ->
         \E n \in 1..Len(line) :
           /\ \A k \in 1..n : IsSpace(line[k])
           /\ LitAt(line, n + 1, pattern.lit, FALSE)
           /\ n + 3 <= Len(line) /\ IsSpace(line[n + 3])

\* server.ts:135-146 with the pattern e for the exit code
PatternsWith(e) ==
  <<ReErrorColon, ReError, ReExceptionColon, ReException, ReFailed, ReTypeError,
    ReSyntaxError, ReReferenceError, e, ReStack>>

\* a pattern list whose exit-code pattern does not look at the code
errorPatternsAnyCode == PatternsWith(ReExitAny)

\* errorPatterns, server.ts:135-146 and 202-213
errorPatterns == PatternsWith(ReExitNonZero)

\* (args?.lines as number) || d
LinesArg(arg, d) == IF arg = <<>> \/ arg[1] = 0 THEN d ELSE arg[1]

\* the defaults of the lines argument (server.ts:84, 114, 181) and of maxFiles
\* (storage.ts:50)
DefaultViewLines == 100
DefaultFixLines == 200
DefaultMaxFiles == 10

\* existsSync(LOG_FILE): the legacy file session.log does not exist
LegacyLogExists == FALSE

\* the result of a tool call: which of the texts it is, and what the text is made from
Result(kind, text, errorLines, errors, unique) ==
  [kind |-> kind, text |-> text, errorLines |-> errorLines, errors |-> errors,
   uniqueErrors |-> unique]

\* server.ts:89-98, 119-128, 186-195
NoLogs == getSessionLogFiles(0) = <<>> /\ ~LegacyLogExists

\* view_logs, server.ts:83-111
view_logs(arg) ==
  IF NoLogs THEN Result("nolog", <<>>, <<>>, <<>>, <<>>)
  ELSE LET recentLines == readRecentLogs(LinesArg(arg, DefaultViewLines), DefaultMaxFiles)
       IN IF recentLines = <<>> THEN Result("empty", <<>>, <<>>, <<>>, <<>>)
          ELSE Result("text", recentLines, <<>>, <<>>, <<>>)

RECURSIVE PushEvery(_, _)
\* an inner loop without the break: the line is pushed for every pattern it matches
PushEvery(line, k) ==
  IF k > Len(errorPatterns) THEN <<>>
  ELSE (IF Test(errorPatterns[k], line) THEN <<line>> ELSE <<>>) \o PushEvery(line, k + 1)

RECURSIVE PushMatch(_, _)
\* server.ts:151-156: the loop over the patterns from the k-th on: push the line at
\* the first pattern that matches, and break
PushMatch(line, k) ==
  IF k > Len(errorPatterns) THEN <<>>
  ELSE IF Test(errorPatterns[k], line) THEN <<line>>
  ELSE PushMatch(line, k + 1)

RECURSIVE FilterErrors(_)
\* server.ts:149-157: errorLines
FilterErrors(recentLines) ==
  IF recentLines = <<>> THEN <<>>
  ELSE PushMatch(Head(recentLines), 1) \o FilterErrors(Tail(recentLines))

\* get_crash_context, server.ts:113-178
get_crash_context(arg) ==
  IF NoLogs THEN Result("nolog", <<>>, <<>>, <<>>, <<>>)
  ELSE LET content == readRecentLogs(LinesArg(arg, DefaultViewLines), DefaultMaxFiles)
           recentLines == Split(content, <<>>)
           errorLines == FilterErrors(recentLines)
       IN IF errorLines = <<>> THEN Result("clean", <<>>, <<>>, <<>>, <<>>)
          ELSE Result("crash", Join(errorLines), errorLines, <<>>, <<>>)

\* server.ts:220-227: the assignments to errorType, one after the other
errorType(line) ==
  LET t0 == "Unknown Error"
      t1 == IF Test(ReErrorColon, line) THEN "Error" ELSE t0
      t2 == IF Test(ReException, line) THEN "Exception" ELSE t1
      t3 == IF Test(ReTypeError, line) THEN "TypeError" ELSE t2
      t4 == IF Test(ReSyntaxError, line) THEN "SyntaxError" ELSE t3
      t5 == IF Test(ReFailed, line) THEN "Failed" ELSE t4
      t6 == IF Test(ReExit, line) THEN "Exit Code Error" ELSE t5
      t7 == IF Test(ReStack, line) THEN "Stack Trace" ELSE t6
  IN t7

RECURSIVE PushError(_, _, _)
\* server.ts:218-232: the loop over the patterns for the line at index
PushError(line, index, k) ==
  IF k > Len(errorPatterns) THEN <<>>
  ELSE IF Test(errorPatterns[k], line)
       THEN <<[line |-> line, index |-> index, type |-> errorType(line)]>>
  ELSE PushError(line, index, k + 1)

RECURSIVE FindErrors(_, _)
\* server.ts:216-233: errors, for the lines from index on
FindErrors(recentLines, index) ==
  IF index >= Len(recentLines) THEN <<>>
  ELSE PushError(recentLines[index + 1], index, 1) \o FindErrors(recentLines, index + 1)

\* a list that keeps every entry
KeepAll(errors, idx) == <<errors[idx + 1]>>

\* server.ts:253-259: what the callback pushes for the entry at idx
PushUnique(errors, idx) ==
  IF errors[idx + 1].type = "Stack Trace" /\ idx > 0 /\ errors[idx].type = "Stack Trace"
  THEN <<>>
  ELSE <<errors[idx + 1]>>

RECURSIVE UniqueFrom(_, _)
UniqueFrom(errors, idx) ==
  IF idx >= Len(errors) THEN <<>>
  ELSE PushUnique(errors, idx) \o UniqueFrom(errors, idx + 1)

\* uniqueErrors, server.ts:251-259
uniqueErrors(errors) == UniqueFrom(errors, 0)

\* auto_fix_errors, server.ts:180-286; the text of the report is the lines of the
\* context, the lists it is written from are kept beside it
auto_fix_errors(arg) ==
  IF NoLogs THEN Result("nolog", <<>>, <<>>, <<>>, <<>>)
  ELSE LET content == readRecentLogs(LinesArg(arg, DefaultFixLines), DefaultMaxFiles)
           recentLines == Split(content, <<>>)
           errors == FindErrors(recentLines, 0)
       IN IF errors = <<>> THEN Result("clean", <<>>, <<>>, <<>>, <<>>)
          ELSE Result("report", Join(recentLines), <<>>, errors, uniqueErrors(errors))

(* One client of the server, and a storage directory with the logs of two sessions:
   an older one of second 0 and the most recent one of second 1 *)

\* the lines of output of a command: "ok", "TypeError: x failed", "Error occurred",
\* "    at f", "error: bad"
OutputLines ==
  {<<111, 107>>,
   <<84, 121, 112, 101, 69, 114, 114, 111, 114, 58, 32, 120, 32, 102, 97, 105, 108, 101, 100>>,
   <<69, 114, 114, 111, 114, 32, 111, 99, 99, 117, 114, 114, 101, 100>>,
   <<32, 32, 32, 32, 97, 116, 32, 102>>,
   <<101, 114, 114, 111, 114, 58, 32, 98, 97, 100>>}

\* a cell of a log file the wrapper 1 wrote
Cell(kind, text, code) == [by |-> 1, w |-> [kind |-> kind, text |-> text, code |-> code]]

\* the log files a session can have left: a file without content (the header did
\* not reach the disk), or the header, at most MaxChunks lines of output and, for a
\* session that is over, the footer with the code of the 'close' event
SessionLogs ==
  {<<>>} \cup
  {<<Cell("header", <<>>, <<>>)>> \o [i \in 1..Len(out) |-> Cell("chunk", out[i] \o <<10>>, <<>>)]
     \o foot :
     out \in UNION {[1..k -> OutputLines] : k \in 0..MaxChunks},
     foot \in {<<>>} \cup {<<Cell("footer", <<>>, code)>> : code \in CloseCodes}}

\* the log files the older session can have left
OlderLogs == {<<>>, <<Cell("header", <<>>, <<>>), Cell("footer", <<>>, <<1>>)>>}

\* the arguments of a tool call: no lines, or a number of lines
ToolArgs == {<<>>} \cup {<<n>> : n \in 0..MaxTotalLines}

InitTriage ==
  /\ \E older \in {{}} \cup {{o} : o \in OlderLogs}, recent \in {{}} \cup {{r} : r \in SessionLogs} :
       LET ids == {generateSessionId(0, 0) : o \in older} \cup {generateSessionId(1, 0) : r \in recent}
       IN /\ logFiles = [id \in ids |-> IF id[1] = 0 THEN CHOOSE o \in older : TRUE
                                        ELSE CHOOSE r \in recent : TRUE]
          /\ logMtime = [id \in ids |-> id[1]]
          /\ masterIndex =
               [exists |-> ids # {},
                content |-> IndexAfter([t \in 0..1 |-> [started |-> generateSessionId(t, 0) \in ids,
                                                        r |-> 0]], 1)]
  /\ clock = 1
  /\ dirExists = TRUE
  /\ activeSessions = [exists |-> FALSE, valid |-> TRUE, map |-> EmptyMap]
  /\ regHist = <<>>
  /\ actHist = <<>>
  /\ completedCalls = {}
  /\ InitWrapVars
  /\ pc = [p \in Procs |-> IF p = 1 THEN "reader" ELSE "off"]
  /\ sessionId = [p \in Procs |-> NoId]
  /\ op = [p \in Procs |-> NoOp]
  /\ ret = [p \in Procs |-> NoRet]
  /\ calls = 0

\* a CallToolRequest for the tool name with the argument arg, server.ts:79-300
CallTool(p, name, arg) ==
  /\ pc[p] = "reader" /\ ret[p].name = "none"
  /\ ret' = [ret EXCEPT ![p] =
               [name |-> name, arg |-> arg, threw |-> FALSE,
                value |-> CASE name = "view_logs" -> view_logs(arg)
                            [] name = "get_crash_context" -> get_crash_context(arg)
                            [] name = "auto_fix_errors" -> auto_fix_errors(arg)]]
  /\ UNCHANGED <<wrapVars, clock, fsVars, pc, sessionId, op, calls, histVars>>

NextTriage ==
  \/ \E p \in Procs, arg \in ToolArgs :
       \/ CallTool(p, "view_logs", arg)
       \/ CallTool(p, "get_crash_context", arg)
       \/ CallTool(p, "auto_fix_errors", arg)

SpecTriage == InitTriage /\ [][NextTriage]_vars

(* The redactor on its own: a text is redacted, and the result is redacted again *)

\* the characters of the texts: K, =, s, a space and [
TextChars == {75, 61, 115, 32, 91}

\* the texts of at most MaxText characters
Texts == UNION {[1..n -> TextChars] : n \in 0..MaxText}

InitRedact ==
  /\ InitFiles
  /\ InitWrapVars
  /\ dirExists = TRUE
  /\ pc = [p \in Procs |-> IF p = 1 THEN "redactor" ELSE "off"]
  /\ sessionId = [p \in Procs |-> NoId]
  /\ op = [p \in Procs |-> NoOp]
  /\ ret = [p \in Procs |-> NoRet]
  /\ calls = 0

\* wrapper.ts:64: redactSecrets(x)
Redact(p, x) ==
  /\ pc[p] = "redactor" /\ ret[p].name = "none"
  /\ ret' = [ret EXCEPT ![p] = [name |-> "redactSecrets", arg |-> <<x>>,
                                 value |-> redactSecrets(x), threw |-> FALSE]]
  /\ UNCHANGED <<wrapVars, clock, fsVars, pc, sessionId, op, calls, histVars>>

\* redactSecrets applied to the result of the call before; arg keeps the first
\* input and the input of this call
RedactAgain(p) ==
  /\ pc[p] = "redactor" /\ ret[p].name = "redactSecrets" /\ Len(ret[p].arg) = 1
  /\ ret' = [ret EXCEPT ![p] = [name |-> "redactSecrets", arg |-> <<ret[p].arg[1], ret[p].value>>,
                                 value |-> redactSecrets(ret[p].value), threw |-> FALSE]]
  /\ UNCHANGED <<wrapVars, clock, fsVars, pc, sessionId, op, calls, histVars>>

NextRedact ==
  \/ \E p \in Procs :
       \/ \E x \in Texts : Redact(p, x)
       \/ RedactAgain(p)

SpecRedact == InitRedact /\ [][NextRedact]_vars

----------------------------------------------------------------------------
(* Properties *)

Entries == Range(masterIndex.content)

\* the writers whose cells a log file holds
Writers(content) == {c.by : c \in Range(content)} \ {0}

Footers(p) == {i \in 1..Len(writes[p]) : writes[p][i].kind \in {"footer", "errorFooter"}}

\* the bytes the data events of one stream carried, in arrival order
RECURSIVE Received(_, _)
Received(events, stream) ==
  IF events = <<>> THEN <<>>
  ELSE (IF Head(events).stream = stream THEN Head(events).data ELSE <<>>)
       \o Received(Tail(events), stream)

\* C1: concurrent wrapper invocations write different log files: no session log
\* file holds output of more than one invocation
C1_LogFileExclusive ==
  \A id \in DOMAIN logFiles : Cardinality(Writers(logFiles[id])) <= 1

\* C2: any two calls of generateSessionId return distinct session ids
C2_IdsDistinct ==
  \A p, q \in Procs :
    (p # q /\ sessionId[p] # NoId /\ sessionId[q] # NoId) => sessionId[p] # sessionId[q]

\* C3, as stated: an entry of the master index stays in the master index in every
\* later state, whatever step is taken
C3_EntryNeverLost ==
  [][\A e \in Entries : e \in Range(masterIndex'.content)]_vars

\* the step is the write of a registerSession call that read the master index
\* when entry e was not in it
RacingWrite(e) ==
  \E p \in Procs :
    /\ op[p].name = "registerSession" /\ op[p].step = "write"
    /\ op'[p].name = "none"
    /\ e \notin Range(op[p].snapIdx)

\* C3, amended: an entry of the master index stays in it across every step of
\* registerSession, markSessionActive and markSessionCompleted, except the write of
\* a registerSession call that had read the master index before the entry was written
C3_EntryLostOnlyByRace ==
  [][\A e \in Entries : e \in Range(masterIndex'.content) \/ RacingWrite(e)]_vars

\* C3 witness: an entry that was registered first is still in the master index
\* after another process has registered and the active registry has been written
C3_EntrySurvives ==
  /\ Len(regHist) = 2
  /\ regHist[1].by # regHist[2].by
  /\ regHist[1].entry # regHist[2].entry
  /\ regHist[1].entry \in Entries
  /\ actHist # <<>>

\* C4: when the last write of a bookkeeping file came from a call that had read the
\* file without an earlier writer's update, the file does not hold that update:
\* the master index lacks the earlier entry, the active registry the earlier id
C4_LastWriterWins ==
  /\ \A i \in 1..Len(regHist) :
       LET last == regHist[Len(regHist)]
           e == regHist[i].entry
       IN (e \notin Range(last.snap) /\ e # last.entry) => e \notin Entries
  /\ \A i \in 1..Len(actHist) :
       LET last == actHist[Len(actHist)]
           h == actHist[i]
       IN (h.kind = "active" /\ last.kind = "active"
           /\ h.id \notin DOMAIN last.snap /\ h.id # last.id)
          => h.id \notin DOMAIN activeSessions.map

\* C4 witness: two processes have finished registerSession and the master index
\* holds the entry of the second writer only
C4_UpdateLost ==
  /\ Len(regHist) = 2
  /\ regHist[1].by # regHist[2].by
  /\ regHist[1].entry # regHist[2].entry
  /\ \A p \in Procs : op[p].name = "none"
  /\ masterIndex.content = <<regHist[2].entry>>

\* the same for markSessionActive and the active registry
C4_ActiveUpdateLost ==
  /\ Len(actHist) = 2
  /\ actHist[1].kind = "active" /\ actHist[2].kind = "active"
  /\ actHist[1].id # actHist[2].id
  /\ \A p \in Procs : op[p].name = "none"
  /\ DOMAIN activeSessions.map = {actHist[2].id}

\* C5: an invocation is finalized once: at most one footer is written, the log
\* stream is ended at most once and the invocation settles at most once; after a
\* child 'error' or 'close' event exactly one footer has been written and the
\* stream has been ended
C5_FinalizedOnce ==
  \A p \in Procs :
    /\ Cardinality(Footers(p)) <= 1
    /\ endCalls[p] <= 1
    /\ settles[p] <= 1
    /\ (child[p].errorEmitted \/ child[p].state = "closed")
         => (Cardinality(Footers(p)) = 1 /\ endCalls[p] = 1 /\ logStream[p].ended)

\* C5 witness: 'error' followed by 'close', and the promise settled
C5_ErrorThenClose ==
  \E p \in Procs :
    child[p].errorEmitted /\ child[p].state = "closed" /\ settles[p] = 1

\* C6: the bytes written to the wrapper's stdout (stderr) are the bytes of the
\* chunks received from the child's stdout (stderr), in arrival order
C6_TerminalVerbatim ==
  \A p \in Procs :
    /\ termOut[p] = Received(recv[p], "stdout")
    /\ termErr[p] = Received(recv[p], "stderr")

\* C7: once the log stream's error has been reported, the warning is not printed
\* again and no further write to the log stream is issued
C7_NoWriteAfterLogError ==
  [][\A p \in Procs :
       hasError[p] => (writes'[p] = writes[p] /\ warnings'[p] = warnings[p])]_vars

\* the invocation of p finished the way the close code c asks for: resolved for 0,
\* process.exit(c) otherwise, after the footer with c and the end callback
FinishedWithCode(p, c) ==
  /\ outcome[p] = IF c = 0 THEN [kind |-> "resolved", code |-> <<>>]
                  ELSE [kind |-> "exited", code |-> <<c>>]
  /\ \E i \in Footers(p) : writes[p][i] = [kind |-> "footer", text |-> <<>>, code |-> <<c>>]
  /\ logStream[p].ended
  /\ settles[p] = 1

\* C8, as stated: a wrapper that has finished after its child closed with exit
\* code c finished with c
C8_ExitCodePropagated ==
  \A p \in Procs :
    (child[p].state = "closed" /\ child[p].code # <<>> /\ outcome[p].kind # "pending")
      => FinishedWithCode(p, child[p].code[1])

\* C8, amended: a wrapper that has finished after its child closed with exit code
\* c, no 'error' event of the child having come before the close, finished with c
C8_ExitCodePropagatedUnlessError ==
  \A p \in Procs :
    (child[p].state = "closed" /\ child[p].code # <<>> /\ outcome[p].kind # "pending"
     /\ ~child[p].errorEmitted)
      => FinishedWithCode(p, child[p].code[1])

\* C8 witness: the child exited with 137 and so did the wrapper
C8_ExitedWith137 ==
  \E p \in Procs :
    child[p].code = <<137>> /\ outcome[p] = [kind |-> "exited", code |-> <<137>>]

\* C9: after the child's 'error' event a wrapper that has settled has written an
\* error footer, ended the log stream, marked the session completed (its id is not
\* in the active registry) and rejected its promise
C9_SpawnFailureFinalized ==
  \A p \in Procs :
    (child[p].errorEmitted /\ outcome[p].kind # "pending")
      => /\ \E i \in Footers(p) : writes[p][i].kind = "errorFooter"
         /\ logStream[p].ended
         /\ sessionId[p] \in completedCalls
         /\ sessionId[p] \notin DOMAIN activeSessions.map
         /\ outcome[p].kind = "rejected"

\* C10: no failure of the logging path in the starting phase ends the invocation
\* before the child has been spawned
C10_StartFailureSwallowed ==
  \A p \in Procs :
    (pc[p] = "done" \/ outcome[p].kind # "pending") => child[p].state # "none"

\* the invocation of p is over: its promise is settled or the process has exited
Completed(p) == outcome[p].kind \in {"resolved", "rejected", "exited"}

\* C11: the session of a wrapper is in the active registry while its child runs,
\* and is no longer in it once the invocation is over
C11_ActiveWhileRunning ==
  \A p \in Procs :
    /\ child[p].state = "running" => sessionId[p] \in DOMAIN activeSessions.map
    /\ Completed(p) => sessionId[p] \notin DOMAIN activeSessions.map

\* C12: with a keep-duration of 0 the log file of a session exists while its child
\* runs, and once the command has completed the log file is gone and the entry of
\* the session is still in the master index
C12_LogGoneAfterCompletion ==
  \A p \in Procs :
    /\ child[p].state = "running" => sessionId[p] \in DOMAIN logFiles
    /\ (child[p].state = "closed" /\ Completed(p))
         => /\ sessionId[p] \notin DOMAIN logFiles
            /\ \E e \in Entries : e.id = sessionId[p]

\* the configured keep-duration D, in seconds of the model's clock
KeepDuration == 0

\* the log files of sessions that are over whose age exceeds the keep-duration
ExpiredLogs ==
  {id \in DOMAIN logFiles :
     /\ \E q \in Procs : sessionId[q] = id
     /\ \A q \in Procs : sessionId[q] = id => Completed(q)
     /\ clock - logMtime[id] > KeepDuration}

\* C13: the sweep of the starting phase comes before the session id is allocated,
\* so when an invocation allocates its id the storage directory holds no log file
\* of a completed session that is older than the keep-duration
C13_SweptAtStart ==
  [][\A p \in Procs :
       (pc[p] = "generate" /\ pc'[p] = "register") => ExpiredLogs = {}]_vars

\* C14, as stated: every session id in the active registry has its log file
C14_ActiveHasLog ==
  \A id \in DOMAIN activeSessions.map : id \in DOMAIN logFiles

\* process p takes the last step of a markSessionCompleted(id, true) call, the
\* unlink, having written the registry without id or having found no entry to remove
UnlinkStep(p, id) ==
  /\ op[p].name = "markSessionCompleted" /\ op[p].step = "unlink"
  /\ op[p].id = id /\ op[p].del
  /\ op'[p].name = "none"
  /\ \/ \E i \in 1..Len(actHist) :
          actHist[i].by = p /\ actHist[i].kind = "completed" /\ actHist[i].id = id
     \/ op[p].snapMap = EmptyMap

\* C14, amended: a log file is deleted only by the unlink step of a
\* markSessionCompleted call for its session id, which comes after that call has
\* written the registry without the id
C14_DeletedOnlyAfterRemoval ==
  [][\A id \in DOMAIN logFiles :
       id \notin DOMAIN logFiles' => \E p \in Procs : UnlinkStep(p, id)]_vars

\* C14 witness: a session has been marked completed and its log file deleted while
\* another session is in the active registry and has its log file
C14_DeletedWhileOtherActive ==
  \E p, q \in Procs :
    /\ sessionId[p] # NoId /\ sessionId[q] # NoId /\ sessionId[p] # sessionId[q]
    /\ pc[p] = "lcEnd" /\ op[p].name = "none"
    /\ sessionId[p] \notin DOMAIN logFiles
    /\ sessionId[p] \notin DOMAIN activeSessions.map
    /\ sessionId[q] \in DOMAIN activeSessions.map
    /\ sessionId[q] \in DOMAIN logFiles

\* the lost update that breaks C14 as stated: the id of a completed session, whose
\* log file is deleted, is back in the registry, and no other session has that id
C14_ResurrectedWithoutLog ==
  \E p \in Procs :
    /\ pc[p] = "lcEnd" /\ op[p].name = "none"
    /\ \A q \in Procs \ {p} : sessionId[q] # sessionId[p]
    /\ sessionId[p] \in DOMAIN activeSessions.map
    /\ sessionId[p] \notin DOMAIN logFiles

\* C15: the write of markSessionCompleted(id, deleteLog) puts the registry it read,
\* without id, into the file; when the call returns, the log file of id does not
\* exist if deleteLog is set, every log file is as it was if it is not set, and no
\* other log file is touched; a call that returns with no write of another call
\* after its own leaves a registry without id
C15_MarkCompletedEffect ==
  [][\A p \in Procs :
       /\ (op[p].name = "markSessionCompleted" /\ op[p].step = "write"
           /\ op'[p].step = "unlink")
            => /\ op[p].id \notin DOMAIN activeSessions'.map
               /\ \A x \in DOMAIN op[p].snapMap \ {op[p].id} :
                     /\ x \in DOMAIN activeSessions'.map
                     /\ activeSessions'.map[x] = op[p].snapMap[x]
       /\ (op[p].name = "markSessionCompleted" /\ op[p].step = "unlink"
           /\ op'[p].name = "none")
            => /\ IF op[p].del
                  THEN /\ op[p].id \notin DOMAIN logFiles'
                       /\ \A x \in DOMAIN logFiles \ {op[p].id} :
                             x \in DOMAIN logFiles' /\ logFiles'[x] = logFiles[x]
                  ELSE logFiles' = logFiles /\ logMtime' = logMtime
               /\ (actHist # <<>> /\ actHist[Len(actHist)].by = p
                   /\ actHist[Len(actHist)].kind = "completed")
                    => op[p].id \notin DOMAIN activeSessions'.map]_vars

\* C15 witness: a markSessionCompleted call that found its id in the registry has
\* returned; the id is not in the registry and the log file does not exist
C15_RemovedAndDeleted ==
  \E p \in Procs :
    /\ pc[p] = "lcEnd" /\ op[p].name = "none"
    /\ \E i \in 1..Len(actHist) :
         /\ actHist[i].by = p /\ actHist[i].kind = "completed"
         /\ sessionId[p] \in DOMAIN actHist[i].snap
    /\ sessionId[p] \notin DOMAIN activeSessions.map
    /\ sessionId[p] \notin DOMAIN logFiles

\* the other case of C15: the call has returned, the id is not in the registry and
\* the log file is still there
C15_RemovedAndKept ==
  \E p \in Procs :
    /\ pc[p] = "lcEnd" /\ op[p].name = "none"
    /\ \E i \in 1..Len(actHist) :
         /\ actHist[i].by = p /\ actHist[i].kind = "completed"
         /\ sessionId[p] \in DOMAIN actHist[i].snap
    /\ sessionId[p] \notin DOMAIN activeSessions.map
    /\ sessionId[p] \in DOMAIN logFiles

\* C16: no call of markSessionActive, markSessionCompleted or getActiveSessions ends
\* with an exception, whatever active-sessions.json holds
C16_MalformedRegistryTolerated ==
  \A p \in Procs :
    ret[p].name \in {"markSessionActive", "markSessionCompleted", "getActiveSessions"}
      => ~ret[p].threw

\* C17, as stated: every session id in the master index has a log file that has
\* been created
C17_IndexedHasLog ==
  \A e \in Entries : e.id \in DOMAIN logFiles

\* C17, amended: the starting phase registers the session first and creates the
\* log file afterwards: a wrapper that has called createWriteStream has written the
\* entry of its session to the master index before
C17_RegisteredBeforeLog ==
  \A p \in Procs :
    logStream[p].state # "none"
      => \E i \in 1..Len(regHist) :
           regHist[i].by = p /\ regHist[i].entry.id = sessionId[p]

\* C17 witness: registerSession has returned, the entry is in the master index and
\* the log file has not been created yet
C17_IndexedBeforeLog ==
  \E p \in Procs :
    /\ pc[p] = "open" /\ op[p].name = "none"
    /\ \E e \in Entries : e.id = sessionId[p]
    /\ sessionId[p] \notin DOMAIN logFiles
    /\ logStream[p].state = "none"

\* the ids of the master index as strings, in the order of registration
RegisteredIds == [i \in 1..Len(masterIndex.content) |-> IdText(masterIndex.content[i].id)]

\* the n most recently registered ids, most recent first
MostRecentIds(n) ==
  LET rev == Reverse(RegisteredIds)
  IN IF n >= Len(rev) THEN rev ELSE SubSeq(rev, 1, n)

\* C18: getRecentSessionIds(n) returns the n most recently registered session ids,
\* all of them when fewer were registered, most recently registered first
C18_RecentIds ==
  \A p \in Procs :
    ret[p].name = "getRecentSessionIds" => ret[p].value = MostRecentIds(ret[p].arg[1])

\* the lines of a text; the empty text has none
TextLines(text) == IF text = <<>> THEN <<>> ELSE Split(text, <<>>)

\* the second line of the separator of a file (the first one is empty)
SepLine(id) == <<9473>> \o IdText(id) \o <<9473>>

\* the n most recently modified session log files
MostRecentFiles(n) ==
  LET files == SortByMtime(DOMAIN logFiles)
  IN {files[i] : i \in 1..(IF n >= Len(files) THEN Len(files) ELSE n)}

\* the lines of the log file of id
LinesOfFile(id) == Range(Split(FileText(id, logFiles[id]), <<>>))

\* C19: readRecentLogs(totalLines, maxFiles) returns a text of at most totalLines
\* lines, and every line of it that is not blank is a line, or the separator, of
\* one of the maxFiles most recently modified session log files
C19_BoundedAndRecent ==
  \A p \in Procs :
    ret[p].name = "readRecentLogs"
      => LET lines == TextLines(ret[p].value)
             recent == MostRecentFiles(ret[p].arg[2])
         IN /\ Len(lines) <= ret[p].arg[1]
            /\ \A i \in 1..Len(lines) :
                 NonBlank(lines[i])
                   => \E id \in recent : lines[i] = SepLine(id) \/ lines[i] \in LinesOfFile(id)

\* the separator lines of a list of lines, in order
RECURSIVE SepLinesOf(_)
SepLinesOf(lines) ==
  IF lines = <<>> THEN <<>>
  ELSE (IF Head(lines) # <<>> /\ Head(lines)[1] = 9473 THEN <<Head(lines)>> ELSE <<>>)
       \o SepLinesOf(Tail(lines))

\* C20: with several session logs, all of them within maxFiles, and N >= 1, the text
\* readRecentLogs returns starts with the separator of a file, its separators name
\* files in the order from the most recently modified one to the oldest, and when
\* the most recently modified log has content its separator is there, followed by
\* a line of that log
C20_MostRecentFirst ==
  \A p \in Procs :
    (/\ ret[p].name = "readRecentLogs"
     /\ ret[p].arg[1] >= 1
     /\ Cardinality(DOMAIN logFiles) >= 2
     /\ ret[p].arg[2] >= Cardinality(DOMAIN logFiles))
      => LET files == SortByMtime(DOMAIN logFiles)
             lines == TextLines(ret[p].value)
             seps == SepLinesOf(lines)
             pos == [x \in {SepLine(id) : id \in DOMAIN logFiles} |->
                       CHOOSE k \in 1..Len(files) : SepLine(files[k]) = x]
         IN /\ lines # <<>>
                 => /\ Len(lines) >= 2 /\ lines[1] = <<>>
                    /\ lines[2] \in DOMAIN pos
            /\ \A i, j \in 1..Len(seps) :
                 i < j => (seps[i] \in DOMAIN pos /\ seps[j] \in DOMAIN pos
                           /\ pos[seps[i]] < pos[seps[j]])
            /\ Filter(Split(FileText(files[1], logFiles[files[1]]), <<>>)) # <<>>
                 => \E i \in 1..(Len(lines) - 1) :
                      /\ lines[i] = SepLine(files[1])
                      /\ lines[i + 1] \in LinesOfFile(files[1])

\* the lines a triage call with the argument arg and the default d reads
InputLines(arg, d) == Split(readRecentLogs(LinesArg(arg, d), DefaultMaxFiles), <<>>)

\* the line matches at least one error-signal pattern
ErrorSignal(line) == \E k \in 1..Len(errorPatterns) : Test(errorPatterns[k], line)

\* the j-th smallest element of a set of numbers
Nth(S, j) == CHOOSE i \in S : Cardinality({x \in S : x < i}) = j - 1

\* the calls of get_crash_context that read the logs
CrashCalls ==
  {p \in Procs : ret[p].name = "get_crash_context" /\ ret[p].value.kind # "nolog"}

\* C21: the error-filtered output of get_crash_context is the input lines that match
\* at least one error-signal pattern, each once per occurrence and in the order of
\* the input, and holds no other line
C21_FilterIsSubsequence ==
  \A p \in CrashCalls :
    LET input == InputLines(ret[p].arg, DefaultViewLines)
        out == ret[p].value.errorLines
        S == {i \in 1..Len(input) : ErrorSignal(input[i])}
    IN /\ Len(out) = Cardinality(S)
       /\ \A j \in 1..Len(out) : out[j] = input[Nth(S, j)]

\* a call of get_crash_context that kept two lines or more, one of them a line that
\* matches two patterns, and dropped lines between and around them
C21_SomeKeptSomeDropped ==
  \E p \in CrashCalls :
    LET input == InputLines(ret[p].arg, DefaultViewLines)
        out == ret[p].value.errorLines
    IN /\ Len(out) >= 2 /\ Len(out) < Len(input)
       /\ \E j \in 1..Len(out) : Test(ReTypeError, out[j]) /\ Test(ReFailed, out[j])
       /\ \E i \in 2..Len(input) : ~ErrorSignal(input[i]) /\ ErrorSignal(input[i - 1])

\* the rules of the classification in their priority order: a category and the
\* pattern that gives it (server.ts:221-227)
CategoryRules ==
  <<[type |-> "Error", re |-> ReErrorColon],
    [type |-> "Exception", re |-> ReException],
    [type |-> "TypeError", re |-> ReTypeError],
    [type |-> "SyntaxError", re |-> ReSyntaxError],
    [type |-> "Failed", re |-> ReFailed],
    [type |-> "Exit Code Error", re |-> ReExit],
    [type |-> "Stack Trace", re |-> ReStack]>>

\* the rules that match the line
MatchingRules(line) == {k \in 1..Len(CategoryRules) : Test(CategoryRules[k].re, line)}

\* the calls of auto_fix_errors that found errors
FixCalls == {p \in Procs : ret[p].name = "auto_fix_errors" /\ ret[p].value.kind = "report"}

\* C22: a flagged line that matches rules of the classification has the category of
\* the first rule, in priority order, that matches it
C22_FirstRuleWins ==
  \A p \in FixCalls :
    \A i \in 1..Len(ret[p].value.errors) :
      LET e == ret[p].value.errors[i]
      IN MatchingRules(e.line) # {}
           => e.type = CategoryRules[Nth(MatchingRules(e.line), 1)].type

\* the entries of errors that begin a run of Stack Trace entries or are of another
\* category
RunStarts(errors) ==
  {i \in 1..Len(errors) :
     ~(errors[i].type = "Stack Trace" /\ i > 1 /\ errors[i - 1].type = "Stack Trace")}

Categories ==
  {"Error", "Exception", "TypeError", "SyntaxError", "Failed", "Exit Code Error", "Stack Trace"}

\* C30: every line auto_fix_errors flags has a category of the fixed label set
C30_CategoryFromLabelSet ==
  \A p \in FixCalls :
    \A i \in 1..Len(ret[p].value.errors) : ret[p].value.errors[i].type \in Categories

\* there is no log content to read: no session log file, or only empty ones (and
\* no legacy file)
NoLogContent == ~LegacyLogExists /\ \A id \in DOMAIN logFiles : logFiles[id] = <<>>

\* the calls of the three read operations
ReadCalls ==
  {p \in Procs : ret[p].name \in {"view_logs", "get_crash_context", "auto_fix_errors"}}

\* C23: a read operation gives the 'no log' result whenever there is no log content
\* to read (for view_logs the 'Log file is empty.' text counts as one), and the
\* 'clean' result only when log content was read and no line of it matched
C23_NoLogDistinctFromClean ==
  \A p \in ReadCalls :
    /\ NoLogContent => ret[p].value.kind \in {"nolog", "empty"}
    /\ ret[p].value.kind = "clean" => ~NoLogContent

\* the log files that end in the footer of a child that exited with the code c
FootersWith(c) ==
  {id \in DOMAIN logFiles :
     \E i \in 1..Len(logFiles[id]) :
       logFiles[id][i].w.kind = "footer" /\ logFiles[id][i].w.code = <<c>>}

\* the line of the footer with the code c, as it stands in the log file
FooterLine(id, c) ==
  Split(WriteText(id, [kind |-> "footer", text |-> <<>>, code |-> <<c>>]), <<>>)[2]

\* the text t stands somewhere in the line
Contains(line, t) == \E i \in 1..Len(line) : LitAt(line, i, t, FALSE)

\* C24: the footer of a child that exited with a nonzero code c contains
\* "Process exited with code: c" and auto_fix_errors classifies its line as
\* Exit Code Error wherever it reads it; the footer of a child that exited with
\* code 0 is flagged by neither triage operation
C24_ExitFooterTriaged ==
  /\ \A c \in ExitCodes \ {0} : \A id \in FootersWith(c) :
       /\ Contains(FooterLine(id, c), ExitText \o Digits(c))
       /\ \A p \in Procs :
            ret[p].name = "auto_fix_errors" /\ ret[p].value.kind # "nolog" =>
              LET input == InputLines(ret[p].arg, DefaultFixLines)
              IN \A i \in 1..Len(input) :
                   input[i] = FooterLine(id, c) =>
                     \E k \in 1..Len(ret[p].value.errors) :
                       /\ ret[p].value.errors[k].index = i - 1
                       /\ ret[p].value.errors[k].type = "Exit Code Error"
  /\ \A id \in FootersWith(0) : \A p \in Procs :
       /\ ret[p].name = "auto_fix_errors" =>
            \A k \in 1..Len(ret[p].value.errors) :
              ret[p].value.errors[k].line # FooterLine(id, 0)
       /\ ret[p].name = "get_crash_context" =>
            \A k \in 1..Len(ret[p].value.errorLines) :
              ret[p].value.errorLines[k] # FooterLine(id, 0)

\* auto_fix_errors read the footer of a child that exited with 137 and classified it
C24_Exit137Classified ==
  \E p \in FixCalls : \E id \in FootersWith(137) :
    \E k \in 1..Len(ret[p].value.errors) :
      /\ ret[p].value.errors[k].line = FooterLine(id, 137)
      /\ ret[p].value.errors[k].type = "Exit Code Error"

\* the chunk a data handler writes to the log for the bytes data
SanitizedChunk(data) ==
  [kind |-> "chunk", text |-> redactSecrets(stripAnsi(Decode(data))), code |-> <<>>]

\* the header is the first write and the only header; a footer is the last write
HeaderFirstFooterLast(p) ==
  /\ writes[p] # <<>> => writes[p][1].kind = "header"
  /\ \A i \in 2..Len(writes[p]) : writes[p][i].kind # "header"
  /\ \A i \in Footers(p) : i = Len(writes[p])

\* C25, as stated: the writes of a session are the header, then one sanitized chunk
\* for every data event in the order of arrival, then the footer
C25_OneChunkPerEvent ==
  \A p \in Procs :
    /\ HeaderFirstFooterLast(p)
    /\ writes[p] # <<>> =>
         LET chunks == SelectSeq(writes[p], LAMBDA w : w.kind = "chunk")
         IN chunks = [i \in 1..Len(recv[p]) |-> SanitizedChunk(recv[p][i].data)]

\* C25, amended: a data event appends its sanitized chunk to the writes when no log
\* error has been reported and leaves the writes alone when one has; every other
\* write is the header, as the first write, or a footer, and nothing is written
\* after a footer
C25_ChunkPerEventUnlessLogError ==
  [][\A p \in Procs :
       /\ recv'[p] # recv[p] =>
            /\ recv'[p] = Append(recv[p], recv'[p][Len(recv'[p])])
            /\ writes'[p] = IF hasError[p] THEN writes[p]
                            ELSE Append(writes[p], SanitizedChunk(recv'[p][Len(recv'[p])].data))
       /\ (recv'[p] = recv[p] /\ writes'[p] # writes[p]) =>
            \E w \in {writes'[p][Len(writes'[p])]} :
              /\ writes'[p] = Append(writes[p], w)
              /\ w.kind \in {"header", "footer", "errorFooter"}
              /\ w.kind = "header" <=> writes[p] = <<>>
       /\ Footers(p) # {} => writes'[p] = writes[p]]_vars

\* a session that wrote the header, the chunks of data events of both streams in
\* the order of arrival, and the footer
C25_BothStreamsThenFooter ==
  \E p \in Procs :
    /\ Len(writes[p]) = Len(recv[p]) + 2
    /\ Received(recv[p], "stdout") # <<>> /\ Received(recv[p], "stderr") # <<>>
    /\ writes[p][1].kind = "header" /\ writes[p][Len(writes[p])].kind = "footer"
    /\ \A i \in 1..Len(recv[p]) : writes[p][i + 1] = SanitizedChunk(recv[p][i].data)
    /\ \E i \in 1..Len(recv[p]) : writes[p][i + 1].text # Decode(recv[p][i].data)

C27_InterruptForwarded ==
  \A p \in Procs :
    outcome[p].kind = "killed" =>
      /\ child[p].signal = "SIGINT"
      /\ Footers(p) # {}
      /\ logStream[p].ended

\* C28: once the child has closed, or could not be started, the wrapper eventually
\* finishes: its promise is resolved or rejected or the process has exited, whatever
\* happened to the log stream
C28_EventuallyFinishes ==
  \A p \in Procs :
    (child[p].state \in {"closed", "failed"}) ~> (outcome[p].kind # "pending")

\* a wrapper whose log stream reported a write error has finished after the close
\* of its child
C28_FinishedDespiteLogError ==
  \E p \in Procs :
    /\ hasError[p] /\ logStream[p].state = "errored"
    /\ child[p].state = "closed"
    /\ outcome[p].kind \in {"resolved", "exited"}

\* the markSessionCompleted call of process p has returned without an exception
\* and no other process has the session id of p
ReturnedFromCompleted(p) ==
  /\ pc[p] = "lcEnd" /\ op[p].name = "none"
  /\ ~(ret[p].name = "markSessionCompleted" /\ ret[p].threw)
  /\ \A q \in Procs \ {p} : sessionId[q] # sessionId[p]

\* C31, as stated: once markSessionCompleted(id) has returned, id is not in the
\* active registry, whatever the calls of other processes for other ids do
C31_CompletedStaysRemoved ==
  \A p \in Procs : ReturnedFromCompleted(p) => sessionId[p] \notin DOMAIN activeSessions.map

\* C31, amended: once markSessionCompleted(id) has returned, id is in the active
\* registry only when, after the write that removed it, a call of another process
\* has written the registry back from a content that still held id
C31_PresentOnlyByStaleWrite ==
  \A p \in Procs :
    (ReturnedFromCompleted(p) /\ sessionId[p] \in DOMAIN activeSessions.map) =>
      \E i \in 1..Len(actHist) :
        /\ actHist[i].by = p /\ actHist[i].kind = "completed"
        /\ actHist[Len(actHist)].by # p
        /\ Len(actHist) > i
        /\ sessionId[p] \in DOMAIN actHist[Len(actHist)].snap

\* markSessionCompleted(id) has returned, another process has written the registry
\* after the removal, and id is not in the registry
C31_RemovedDespiteOtherWriter ==
  \E p \in Procs :
    /\ ReturnedFromCompleted(p)
    /\ \E i \in 1..Len(actHist) :
         /\ actHist[i].by = p /\ actHist[i].kind = "completed"
         /\ sessionId[p] \in DOMAIN actHist[i].snap
         /\ Len(actHist) > i /\ actHist[Len(actHist)].by # p
    /\ sessionId[p] \notin DOMAIN activeSessions.map
    /\ activeSessions.map # EmptyMap

\* C32: no write is issued to a log stream after logStream.end: when the stream has
\* been ended the last write is the error footer or the exit footer, and no later
\* event of the child, in any order the runtime delivers them, adds a write
C32_NoWriteAfterEnd ==
  [][\A p \in Procs :
       /\ logStream[p].ended =>
            /\ writes'[p] = writes[p]
            /\ writes[p] # <<>>
            /\ writes[p][Len(writes[p])].kind \in {"footer", "errorFooter"}
       /\ (~logStream[p].ended /\ logStream'[p].ended) =>
            /\ writes'[p] = Append(writes[p], writes'[p][Len(writes'[p])])
            /\ writes'[p][Len(writes'[p])].kind \in {"footer", "errorFooter"}]_vars

\* a session whose child sent data on both streams and then closed: the stream is
\* ended, the exit footer is the last write and the promise has settled
C32_EndedAfterDataAndClose ==
  \E p \in Procs :
    /\ logStream[p].ended /\ child[p].state = "closed" /\ ~child[p].errorEmitted
    /\ Received(recv[p], "stdout") # <<>> /\ Received(recv[p], "stderr") # <<>>
    /\ Len(writes[p]) = Len(recv[p]) + 2
    /\ writes[p][Len(writes[p])].kind = "footer"
    /\ outcome[p].kind # "pending"

\* the concatenation of a sequence of sequences
RECURSIVE Flatten(_)
Flatten(ss) == IF ss = <<>> THEN <<>> ELSE Head(ss) \o Flatten(Tail(ss))

\* the text of the chunks a session has written to its log, in order
LoggedText(p) ==
  LET chunks == SelectSeq(writes[p], LAMBDA w : w.kind = "chunk")
  IN Flatten([i \in 1..Len(chunks) |-> chunks[i].text])

\* the child's output as one stream of bytes
StreamBytes(p) == Flatten([i \in 1..Len(recv[p]) |-> recv[p][i].data])

\* the output of p came on stdout only, in ASCII, and no log error was reported
PlainStdoutOnly(p) ==
  /\ ~hasError[p]
  /\ writes[p] # <<>>
  /\ \A i \in 1..Len(recv[p]) :
       /\ recv[p][i].stream = "stdout"
       /\ \A j \in 1..Len(recv[p][i].data) : recv[p][i].data[j] < 128

\* C33: the logged content does not depend on how the output is divided into data
\* events: it is the content logged for the same stream delivered as one chunk
C33_ChunkingIndependent ==
  \A p \in Procs :
    PlainStdoutOnly(p) =>
      LoggedText(p) = redactSecrets(stripAnsi(Decode(StreamBytes(p))))

\* the step is one of the markSessionCompleted call of process p
StepOfCompleted(p) == op[p].name = "markSessionCompleted" /\ op'[p] # op[p]

\* the registry contents m1 and m2 hold the same entries for every id except id
OtherEntriesSame(id, m1, m2) ==
  \A x \in (DOMAIN m1 \cup DOMAIN m2) \ {id} :
    x \in DOMAIN m1 /\ x \in DOMAIN m2 /\ m1[x] = m2[x]

\* the step leaves the log file of every session except id as it is
OtherLogsSame(id) ==
  \A x \in (DOMAIN logFiles \cup DOMAIN logFiles') \ {id} :
    /\ x \in DOMAIN logFiles /\ x \in DOMAIN logFiles'
    /\ logFiles'[x] = logFiles[x] /\ logMtime'[x] = logMtime[x]

\* C34, as stated: no step of markSessionCompleted(id, deleteLog) changes the master
\* index, the registry entry of another session or the log file of another session
C34_OthersUntouched ==
  [][\A p \in Procs :
       StepOfCompleted(p) =>
         /\ masterIndex' = masterIndex
         /\ OtherEntriesSame(op[p].id, activeSessions.map, activeSessions'.map)
         /\ OtherLogsSame(op[p].id)]_vars

\* C34, amended: no step of markSessionCompleted(id, deleteLog) changes the master
\* index or the log file of another session; its write leaves the entries of the
\* other sessions as the call read them, and its other steps leave the registry alone
C34_OthersAsRead ==
  [][\A p \in Procs :
       StepOfCompleted(p) =>
         /\ masterIndex' = masterIndex
         /\ OtherLogsSame(op[p].id)
         /\ IF op[p].step = "write"
            THEN /\ OtherEntriesSame(op[p].id, op[p].snapMap, activeSessions'.map)
                 /\ activeSessions'.exists /\ activeSessions'.valid
            ELSE activeSessions' = activeSessions]_vars

\* markSessionCompleted(id, true) has returned: id has no entry and no log file,
\* while another session has kept its entry and its log file, and the master index
\* holds its entry
C34_OtherSessionKept ==
  \E p \in Procs, q \in Procs :
    /\ pc[p] = "lcEnd" /\ op[p].name = "none"
    /\ sessionId[q] # sessionId[p]
    /\ sessionId[p] \notin DOMAIN activeSessions.map /\ sessionId[p] \notin DOMAIN logFiles
    /\ sessionId[q] \in DOMAIN activeSessions.map /\ sessionId[q] \in DOMAIN logFiles
    /\ masterIndex.exists /\ Len(masterIndex.content) = 1
    /\ actHist # <<>>
    /\ actHist[Len(actHist)].by = p /\ actHist[Len(actHist)].kind = "completed"
    /\ sessionId[p] \in DOMAIN actHist[Len(actHist)].snap
    /\ sessionId[q] \in DOMAIN actHist[Len(actHist)].snap

\* C35: markSessionCompleted is total on well-formed state and idempotent, in
\* executions where calls do not interleave: it throws only when the registry file
\* is malformed and otherwise always has a next step; it does not create the
\* registry file; after its write id is not in the registry; and a call for an id
\* that is not in the registry, or whose log file does not exist, leaves the
\* registry content, or the log files, as they are
C35_IdempotentAndTotal ==
  [][\A p \in Procs :
       /\ (op[p].name = "markSessionCompleted" /\ ~ParseFails) =>
            ENABLED (MarkCompletedRead(p) \/ MarkCompletedWrite(p) \/ MarkCompletedUnlink(p))
       /\ (actHist # <<>> /\ actHist[Len(actHist)].kind = "completed") =>
            actHist[Len(actHist)].id \notin DOMAIN activeSessions.map
       /\ StepOfCompleted(p) =>
            /\ (ret'[p] # ret[p] /\ ret'[p].threw) => ParseFails
            /\ ~activeSessions.exists => activeSessions' = activeSessions
            /\ op[p].id \notin DOMAIN activeSessions.map =>
                 activeSessions'.map = activeSessions.map
            /\ (op[p].id \notin DOMAIN logFiles \/ ~op[p].del) =>
                 (logFiles' = logFiles /\ logMtime' = logMtime)]_vars

\* markSessionCompleted has been called twice for the same id: the second call found
\* neither the id in the registry nor the log file, has returned, and the registry is
\* as the first call left it
C35_CalledTwice ==
  \E p \in Procs :
    /\ pc[p] = "lcEnd" /\ op[p].name = "none" /\ ~ret[p].threw
    /\ sessionId[p] \notin DOMAIN logFiles
    /\ Len(actHist) >= 2
    /\ LET first == actHist[Len(actHist) - 1]
           second == actHist[Len(actHist)]
       IN /\ first.by = p /\ first.kind = "completed" /\ first.id = sessionId[p]
          /\ second.by = p /\ second.kind = "completed" /\ second.id = sessionId[p]
          /\ sessionId[p] \in DOMAIN first.snap
          /\ second.snap = ActiveDelete(first.snap, sessionId[p])
          /\ activeSessions.map = second.snap

\* C36: after registerSession calls that did not interleave, with ids made by
\* generateSessionId, getAllSessionIds returns the registered ids, one for each
\* registered session, in the order of registration
C36_ListIsRegistered ==
  \A p \in Procs :
    ret[p].name = "getAllSessionIds" => ret[p].value = RegisteredIds

\* C37: a getActiveSessions call made while the entry markSessionActive(id, dir)
\* wrote is in the registry returns id when it is called without argument, and
\* returns id exactly when d = dir when it is called with the directory d; it
\* returns the empty list when the registry file does not exist
C37_ActiveListed ==
  [][\A p \in Procs :
       (ret'[p] # ret[p] /\ ret'[p].name = "getActiveSessions" /\ ~ret'[p].threw) =>
         LET v == ret'[p].value
             arg == ret'[p].arg
             id == sessionId[p]
             ids == {v[i] : i \in 1..Len(v)}
         IN /\ ~activeSessions.exists => v = <<>>
            /\ (id \in DOMAIN activeSessions.map
                  /\ activeSessions.map[id].projectDir = ProjectDir(p)) =>
                 /\ arg = <<>> => id \in ids
                 /\ arg # <<>> => (id \in ids <=> arg[1] = ProjectDir(p))]_vars

\* the child of p has ended without success: its spawn failed, or it closed with an
\* exit code other than 0 or, terminated by a signal, with no exit code
ChildFailed(p) ==
  \/ child[p].errorEmitted
  \/ child[p].state = "closed" /\ child[p].code # <<0>>

\* C38: the promise of a wrapper is resolved only when its child has closed with
\* exit code 0; a wrapper that has ended after its child ended in any other way has
\* rejected its promise or exited with a code other than 0, and no wrapper exits
\* with code 0
C38_SuccessOnlyForZero ==
  \A p \in Procs :
    /\ outcome[p].kind = "resolved" =>
         (child[p].state = "closed" /\ child[p].code = <<0>> /\ ~child[p].errorEmitted)
    /\ outcome[p].kind = "exited" => outcome[p].code # <<0>>
    /\ (ChildFailed(p) /\ outcome[p].kind \in {"resolved", "rejected", "exited"}) =>
         outcome[p].kind \in {"rejected", "exited"}

\* a child terminated by a signal: the close event carried no exit code, and the
\* wrapper has exited with code 1
C38_SignalExitsWithOne ==
  \E p \in Procs :
    /\ child[p].state = "closed" /\ child[p].code = <<>>
    /\ outcome[p] = [kind |-> "exited", code |-> <<1>>]

====
